---------------------------- MODULE Spec2Model ----------------------------
(***************************************************************************)
(* A model of the Wan2GP plugins: the Prompt Library plugin (handlers of   *)
(* plugins/wan2gp-prompt-library/plugin.py over the prompt store), the     *)
(* LoRA Manager plugin's metadata operations and the System Prompt         *)
(* Manager plugin's apply.                                                 *)
(*                                                                         *)
(* Text is modelled as a sequence of one-character strings, so that        *)
(* splitting, stripping, lower-casing and replacing are computed the way   *)
(* the Python string methods compute them.                                 *)
(***************************************************************************)
EXTENDS Integers, Sequences, FiniteSets, TLC

(***************************************************************************)
(* Bounds of the model.                                                    *)
(***************************************************************************)
\* pieces a template of the substitution inputs is built from
MaxPieces == 2
\* comma-separated items of a variable string of the substitution inputs
MaxPairs == 2
\* collections a user may create besides the reserved one
MaxCollections == 1
\* prompt records the store ever creates (ids 1..MaxPrompts)
MaxPrompts == 2
\* LoRAs that may be selected at once in the LoRA Manager's list
MaxSelected == 2

\* the longest prompt of the generator that a confirmed injection appends to
MaxPromptLength == 4
\* cap of a record's use_count
MaxUse == 2
\* the clock int(time.time()) runs over 0..MaxTime
MaxTime == 1

VARIABLES
    \* ---- _substitute_variables, as a function under test
    tmpl,        \* the template given to _substitute_variables
    varstr,      \* the variable string given to it
    result,      \* what it returned
    pc,          \* "idle" | "call" | "done"
    \* ---- the Prompt Library plugin
    data,        \* self.library.data: the in-memory document
    disk,        \* the document in the store's JSON file
    now,         \* the clock, in seconds
    nextId,      \* the next prompt id the store generates
    exports,     \* the export files written: collection id -> document
    exportChoices,           \* the ids the 'Collection to Export' dropdown offers
    selected_prompt_state,   \* gr.State: the selected prompt id, NoPrompt for None
    selected_collection,     \* self.selected_collection
    prompt_gallery,          \* the gallery as it was rendered last: the ids of its cards
    settings,    \* the host's current generation settings (a dict)
    op,          \* the handler that ran last and its argument
    status,      \* the status message the handler returned
    storeCall,   \* the mutating call the handler made on the store, if any
    fileState,   \* who wrote the store's file last, see FileStateAfter
    \* ---- the LoRA Manager and System Prompt Manager plugins
    lora_metadata,   \* self.lora_metadata
    db_file,     \* the content of the file db_path
    sidecars,    \* the sidecar JSON files: key -> trainedWords
    models_def,  \* the host's model definitions: model type -> dict
    model_file,  \* the "model" block of each definition file
    call,        \* what the handler of these plugins that ran last did
    status_parts,    \* the lines of the status _apply_prompt_updates returned
    definition_file_ops, \* what it did with the model definition file
    refresh_trigger, \* gr.State: the trigger of the cards' re-render
    batch_totals,    \* the counts batch_update_metadata reported last
    conflict_panel,  \* whether the LoRA Manager's conflict panel is visible
    prompt_choice,   \* the radio of the panel: its choices and its value
    ui_prompt,       \* the host's prompt box (self.prompt)
    loras_choices,   \* the host's LoRA selection (self.loras_choices)
    \* ---- the Model Status plugin
    analyzer_models_def, \* ModelAvailabilityAnalyzer.models_def
    located,     \* what locator_func and os.path.exists give for each URL
    table        \* the rows of the overview, as summary_rows returned them last

substVars == <<tmpl, varstr, result, pc>>

libVars == <<data, disk, now, nextId, exports, exportChoices, selected_prompt_state,
             selected_collection, prompt_gallery, settings, op, status, storeCall>>

injectVars == <<conflict_panel, prompt_choice, ui_prompt, loras_choices>>

applyVars == <<status_parts, definition_file_ops>>

refreshVars == <<refresh_trigger, batch_totals>>

loraVars == <<lora_metadata, db_file, sidecars, models_def, model_file, call, injectVars,
              applyVars, refreshVars>>

statusVars == <<analyzer_models_def, located, table>>

nonLoraVars == <<substVars, libVars, fileState, statusVars>>

vars == <<tmpl, varstr, result, pc, data, disk, now, nextId, exports, exportChoices,
          selected_prompt_state, selected_collection, prompt_gallery, settings, op,
          status, storeCall, fileState, lora_metadata, db_file, sidecars, models_def,
          model_file, call, conflict_panel, prompt_choice, ui_prompt, loras_choices,
          status_parts, definition_file_ops, refresh_trigger, batch_totals,
          analyzer_models_def, located, table>>

(***************************************************************************)
(* Python string methods on sequences of characters.                       *)
(***************************************************************************)
IsSpace(c) == c = " "

\* str.lstrip()
RECURSIVE LStrip(_)
LStrip(s) ==
    IF s # <<>> /\ IsSpace(Head(s)) THEN LStrip(Tail(s)) ELSE s

\* str.rstrip()
RECURSIVE RStrip(_)
RStrip(s) ==
    IF s # <<>> /\ IsSpace(s[Len(s)]) THEN RStrip(SubSeq(s, 1, Len(s) - 1)) ELSE s

\* str.strip()
Strip(s) == RStrip(LStrip(s))

\* c in s, for a one-character c
Contains(s, c) == \E i \in 1..Len(s) : s[i] = c

\* index of the first c in s (0 when there is none)
FirstIndex(s, c) ==
    IF Contains(s, c) THEN CHOOSE i \in 1..Len(s) : s[i] = c /\ \A j \in 1..(i - 1) : s[j] # c
    ELSE 0

\* s.split(c): the list of the pieces between the separators, never empty
RECURSIVE Split(_, _)
Split(s, c) ==
    LET i == FirstIndex(s, c)
    IN  IF i = 0 THEN <<s>>
        ELSE <<SubSeq(s, 1, i - 1)>> \o Split(SubSeq(s, i + 1, Len(s)), c)

\* s.split(c, 1) of a string that holds c: what is before and after the first c
SplitFirst(s, c) ==
    LET i == FirstIndex(s, c)
    IN  <<SubSeq(s, 1, i - 1), SubSeq(s, i + 1, Len(s))>>

\* whether old occurs in s at position i
MatchesAt(s, i, old) ==
    /\ i + Len(old) - 1 <= Len(s)
    /\ \A k \in 1..Len(old) : s[i + k - 1] = old[k]

\* sub in s
IsSubstring(sub, s) == \E i \in 1..(Len(s) + 1) : MatchesAt(s, i, sub)

\* s.replace(old, new) for a non-empty old: the non-overlapping occurrences,
\* found left to right, each replaced once
RECURSIVE Replace(_, _, _)
Replace(s, old, new) ==
    IF s = <<>> THEN <<>>
    ELSE IF MatchesAt(s, 1, old)
         THEN new \o Replace(SubSeq(s, Len(old) + 1, Len(s)), old, new)
         ELSE <<Head(s)>> \o Replace(Tail(s), old, new)

\* the concatenation of a list of strings
RECURSIVE Concat(_)
Concat(ss) == IF ss = <<>> THEN <<>> ELSE Head(ss) \o Concat(Tail(ss))

\* sep.join(ss)
RECURSIVE Join(_, _)
Join(ss, sep) ==
    IF ss = <<>> THEN <<>>
    ELSE IF Len(ss) = 1 THEN Head(ss)
    ELSE Head(ss) \o sep \o Join(Tail(ss), sep)

\* the sequences over S of length up to n
SeqsUpTo(S, n) == UNION { [1..k -> S] : k \in 0..n }

(***************************************************************************)
(* A Python dict as the list of its <<key, value>> items in insertion      *)
(* order: assigning to a key that is present keeps the key's place.        *)
(***************************************************************************)
DictHas(d, k) == \E i \in 1..Len(d) : d[i][1] = k

DictGet(d, k) == d[CHOOSE i \in 1..Len(d) : d[i][1] = k][2]

\* an assignment that keeps the value a present key already has
DictSetOnce(d, k, v) == IF DictHas(d, k) THEN d ELSE Append(d, <<k, v>>)

DictSet(d, k, v) ==
    IF DictHas(d, k)
    THEN [i \in 1..Len(d) |-> IF d[i][1] = k THEN <<k, v>> ELSE d[i]]
    ELSE Append(d, <<k, v>>)

(***************************************************************************)
(* PromptLibraryPlugin._substitute_variables                               *)
(***************************************************************************)
\* the loop that parses the variable string into the dict `variables`
RECURSIVE ParsePairs(_, _)
ParsePairs(pairs, variables) ==
    IF pairs = <<>> THEN variables
    ELSE LET pair == Strip(Head(pairs))
         IN  IF Contains(pair, "=")
             THEN LET kv == SplitFirst(pair, "=")
                  IN  ParsePairs(Tail(pairs),
                                 DictSet(variables, Strip(kv[1]), Strip(kv[2])))
             ELSE ParsePairs(Tail(pairs), variables)

ParseVariables(variable_string) == ParsePairs(Split(variable_string, ","), <<>>)

\* the placeholder text of a key: f"{{{key}}}"
Placeholder(key) == <<"{">> \o key \o <<"}">>

\* the loop that replaces, one key after the other, in the dict's order
RECURSIVE ReplaceAll(_, _)
ReplaceAll(prompt, variables) ==
    IF variables = <<>> THEN prompt
    ELSE ReplaceAll(Replace(prompt, Placeholder(Head(variables)[1]), Head(variables)[2]),
                    Tail(variables))

_substitute_variables(prompt, variable_string) ==
    IF variable_string = <<>> \/ Strip(variable_string) = <<>>
    THEN prompt
    ELSE ReplaceAll(prompt, ParseVariables(variable_string))

nonLibVars == <<substVars, loraVars, statusVars>>

SubstIdle == tmpl = <<>> /\ varstr = <<>> /\ result = <<>> /\ pc = "idle"

FileIdle == fileState = "synced"

\* no model definitions for the Model Status plugin, nothing scanned
StatusIdle == analyzer_models_def = <<>> /\ located = <<>> /\ table = <<>>

(***************************************************************************)
(* More Python string methods, used by the collection handlers.            *)
(***************************************************************************)
\* str.lower(), on the letters the inputs use
LowerChar(c) ==
    CASE c = "M" -> "m"
      [] c = "F" -> "f"
      [] c = "A" -> "a"
      [] c = "B" -> "b"
      [] c = "N" -> "n"
      [] OTHER -> c

Lower(s) == [i \in 1..Len(s) |-> LowerChar(s[i])]

\* s.replace(a, b) for one-character a and b
ReplaceChar(s, a, b) == [i \in 1..Len(s) |-> IF s[i] = a THEN b ELSE s[i]]

DigitChar(d) ==
    CASE d = 0 -> "0" [] d = 1 -> "1" [] d = 2 -> "2" [] d = 3 -> "3" [] d = 4 -> "4"
      [] d = 5 -> "5" [] d = 6 -> "6" [] d = 7 -> "7" [] d = 8 -> "8" [] d = 9 -> "9"

\* str(n) of a natural number
RECURSIVE IntToStr(_)
IntToStr(n) ==
    IF n < 10 THEN <<DigitChar(n)>> ELSE IntToStr(n \div 10) \o <<DigitChar(n % 10)>>

(***************************************************************************)
(* The prompt store (library.PromptLibrary).  Its document is              *)
(*   [collections |-> the collections in dict order, each                  *)
(*                    [id, name, prompts |-> the list of its records],     *)
(*    favorites   |-> the list of favourite prompt ids]                    *)
(* and a record is [id, name, prompt, negative_prompt, tags, settings,     *)
(* use_count, updated_at].  An optional value is <<>> for None and <<v>>   *)
(* for v.  Every mutation writes the whole document to the file.           *)
(***************************************************************************)
\* the reserved collection id "favorites"
FAVORITES == <<"f", "a", "v", "o", "r", "i", "t", "e", "s">>

\* the display names the reserved collection may carry: its id, or a capitalised label
FavoritesNames == { FAVORITES, <<"F", "a", "v", "o", "r", "i", "t", "e", "s">> }

\* None, for a prompt id
NoPrompt == 0

\* None, for a collection id
NoCollection == <<>>

InitialDocument(favoritesName) ==
    [collections |-> << [id |-> FAVORITES, name |-> favoritesName, prompts |-> <<>>] >>,
     favorites |-> <<>>]

CollectionIds(doc) == { doc.collections[i].id : i \in 1..Len(doc.collections) }

HasCollection(doc, id) == id \in CollectionIds(doc)

CollectionIndex(doc, id) ==
    CHOOSE i \in 1..Len(doc.collections) :
        /\ doc.collections[i].id = id
        /\ \A j \in 1..(i - 1) : doc.collections[j].id # id

\* every record of the document, in document order
RECURSIVE PromptsOf(_)
PromptsOf(collections) ==
    IF collections = <<>> THEN <<>>
    ELSE Head(collections).prompts \o PromptsOf(Tail(collections))

AllPrompts(doc) == PromptsOf(doc.collections)

PromptIds(doc) == { AllPrompts(doc)[i].id : i \in 1..Len(AllPrompts(doc)) }

\* get_collection_names(): the (display name, id) pairs, in dict order
get_collection_names(doc) ==
    [i \in 1..Len(doc.collections) |-> <<doc.collections[i].name, doc.collections[i].id>>]

\* create_collection(id, name): fails if the id exists
create_collection_ok(doc, id) == ~HasCollection(doc, id)

create_collection(doc, id, name) ==
    [doc EXCEPT !.collections = Append(@, [id |-> id, name |-> name, prompts |-> <<>>])]

\* a delete_collection that moves the records of the collection to the first
\* collection instead of deleting them
delete_collection_keeping_records(doc, id) ==
    LET owned == SelectSeq(doc.collections, LAMBDA c : c.id = id)[1].prompts
        rest == SelectSeq(doc.collections, LAMBDA c : c.id # id)
    IN  [doc EXCEPT !.collections = [rest EXCEPT ![1].prompts = @ \o owned]]

\* delete_collection(id): fails for "favorites" and for an unknown id
delete_collection_ok(doc, id) == id # FAVORITES /\ HasCollection(doc, id)

delete_collection(doc, id) ==
    [doc EXCEPT !.collections = SelectSeq(@, LAMBDA c : c.id # id)]

\* get_prompt(id): the record, looked up across all collections
get_prompt(doc, id) ==
    LET found == SelectSeq(AllPrompts(doc), LAMBDA p : p.id = id)
    IN  IF found = <<>> THEN <<>> ELSE <<Head(found)>>

\* find_by_prompt(text): the first record, in document order, with that prompt
find_by_prompt(doc, text) ==
    LET found == SelectSeq(AllPrompts(doc), LAMBDA p : p.prompt = text)
    IN  IF found = <<>> THEN <<>> ELSE <<Head(found)>>

\* add_prompt's test without the trimming of the prompt
add_prompt_ok_untrimmed(doc, collection_id, name, prompt) ==
    /\ HasCollection(doc, collection_id)
    /\ Strip(name) # <<>>
    /\ prompt # <<>>

\* add_prompt(...): fails if the collection is unknown or name or prompt is
\* empty after trimming
add_prompt_ok(doc, collection_id, name, prompt) ==
    /\ HasCollection(doc, collection_id)
    /\ Strip(name) # <<>>
    /\ Strip(prompt) # <<>>

add_prompt(doc, collection_id, name, prompt, negative_prompt, tags, saved, id, time) ==
    LET record == [id |-> id, name |-> name, prompt |-> prompt,
                   negative_prompt |-> negative_prompt, tags |-> tags,
                   settings |-> saved, use_count |-> 0, updated_at |-> time]
        i == CollectionIndex(doc, collection_id)
    IN  [doc EXCEPT !.collections[i].prompts = Append(@, record)]

\* delete_prompt(id): removes the record from its collection; fails if unknown
delete_prompt_ok(doc, id) == get_prompt(doc, id) # <<>>

delete_prompt(doc, id) ==
    [doc EXCEPT !.collections =
        [i \in 1..Len(doc.collections) |->
            [doc.collections[i] EXCEPT
                !.prompts = SelectSeq(doc.collections[i].prompts, LAMBDA p : p.id # id)]]]

\* record_usage(id): use_count + 1 and a new updated_at; nothing for an unknown id
UsedRecord(p, id, time) ==
    IF p.id = id
    THEN [p EXCEPT !.use_count = p.use_count + 1, !.updated_at = time]
    ELSE p

record_usage(doc, id, time) ==
    [doc EXCEPT !.collections =
        [i \in 1..Len(doc.collections) |->
            [doc.collections[i] EXCEPT
                !.prompts = [k \in 1..Len(doc.collections[i].prompts) |->
                                UsedRecord(doc.collections[i].prompts[k], id, time)]]]]

\* is_in_favorites(id): whether the id is in the favourites list
is_in_favorites(doc, id) == \E i \in 1..Len(doc.favorites) : doc.favorites[i] = id

\* add_to_favorites(id): fails for an id that is already a favourite
add_to_favorites_ok(doc, id) == ~is_in_favorites(doc, id)

add_to_favorites(doc, id) == [doc EXCEPT !.favorites = Append(@, id)]

\* remove_from_favorites(id): fails for an id that is not a favourite
remove_from_favorites_ok(doc, id) == is_in_favorites(doc, id)

remove_from_favorites(doc, id) ==
    [doc EXCEPT !.favorites = SelectSeq(@, LAMBDA f : f # id)]

\* an export that leaves the tags of the records out
export_collection_untagged(doc, id) ==
    IF HasCollection(doc, id)
    THEN LET c == doc.collections[CollectionIndex(doc, id)]
         IN  << [id |-> c.id, name |-> c.name,
                 prompts |-> [k \in 1..Len(c.prompts) |->
                                 [c.prompts[k] EXCEPT !.tags = <<>>]]] >>
    ELSE <<>>

\* export_collection(id): the collection's name and records, None if unknown
export_collection(doc, id) ==
    IF HasCollection(doc, id)
    THEN LET c == doc.collections[CollectionIndex(doc, id)]
         IN  << [id |-> c.id, name |-> c.name, prompts |-> c.prompts] >>
    ELSE <<>>

\* a tag filter that a record passes when it carries any tag of the filter
TagsMatchAny(record, tags) ==
    \E i \in 1..Len(tags) : \E k \in 1..Len(record.tags) : record.tags[k] = tags[i]

\* the tag filter: the record carries every tag of the filter
TagsMatch(record, tags) ==
    \A i \in 1..Len(tags) : \E k \in 1..Len(record.tags) : record.tags[k] = tags[i]

\* the search filter: the text occurs in the name or in the prompt, whatever the case
SearchMatch(record, search) ==
    \/ IsSubstring(Lower(search), Lower(record.name))
    \/ IsSubstring(Lower(search), Lower(record.prompt))

\* an ordering that leaves the records in insertion order
InsertionOrder(prompts) == prompts

\* the records in the order most recently updated first, records updated at
\* the same time in insertion order
RECURSIVE SortByUpdated(_)
SortByUpdated(prompts) ==
    IF prompts = <<>> THEN <<>>
    ELSE LET last == prompts[Len(prompts)]
             before == SortByUpdated(SubSeq(prompts, 1, Len(prompts) - 1))
         IN  SelectSeq(before, LAMBDA r : r.updated_at >= last.updated_at)
                 \o <<last>>
                 \o SelectSeq(before, LAMBDA r : r.updated_at < last.updated_at)

\* get_prompts_in_collection(collection_id, search, tags): the records of the
\* collection that pass the filters (an empty search or tag list filters
\* nothing), ordered; nothing for an unknown collection
get_prompts_in_collection(doc, collection_id, search, tags) ==
    IF ~HasCollection(doc, collection_id) THEN <<>>
    ELSE LET prompts == doc.collections[CollectionIndex(doc, collection_id)].prompts
             passing ==
                 SelectSeq(prompts,
                           LAMBDA r : /\ search = <<>> \/ SearchMatch(r, search)
                                      /\ tags = <<>> \/ TagsMatch(r, tags))
         IN  SortByUpdated(passing)

\* use_count of a record of the document (0 when there is none)
UseCount(doc, id) ==
    IF get_prompt(doc, id) = <<>> THEN 0 ELSE get_prompt(doc, id)[1].use_count

\* a document of an import file is well formed when it carries its fields
\* (a malformed one is modelled as the empty record)
MalformedDocument == [malformed |-> TRUE]

IsWellFormed(document) == DOMAIN document = {"id", "name", "prompts"}

\* the incoming records appended to collection cid with the ids they carry
RECURSIVE ImportRecordsKeepingIds(_, _, _, _)
ImportRecordsKeepingIds(doc, cid, incoming, next) ==
    IF incoming = <<>> THEN [doc |-> doc, next |-> next]
    ELSE ImportRecordsKeepingIds(
             [doc EXCEPT !.collections[CollectionIndex(doc, cid)].prompts =
                 Append(@, Head(incoming))],
             cid, Tail(incoming), next)

\* the incoming records appended to collection cid, an incoming record whose id
\* is already in the document getting a newly generated id
RECURSIVE ImportRecords(_, _, _, _)
ImportRecords(doc, cid, incoming, next) ==
    IF incoming = <<>> THEN [doc |-> doc, next |-> next]
    ELSE LET r == Head(incoming)
             clash == r.id \in PromptIds(doc)
             i == CollectionIndex(doc, cid)
         IN  ImportRecords(
                 [doc EXCEPT !.collections[i].prompts =
                     Append(@, [r EXCEPT !.id = IF clash THEN next ELSE r.id])],
                 cid, Tail(incoming), IF clash THEN next + 1 ELSE next)

\* import_collection(document, merge): merge appends to an existing collection,
\* otherwise the collection of that id is replaced (or created)
import_collection_ok(doc, document) == IsWellFormed(document)

import_collection(doc, document, merge, next) ==
    LET cid == document.id
        emptied ==
            IF HasCollection(doc, cid)
            THEN IF merge THEN doc
                 ELSE [doc EXCEPT !.collections[CollectionIndex(doc, cid)] =
                          [id |-> cid, name |-> document.name, prompts |-> <<>>]]
            ELSE create_collection(doc, cid, document.name)
    IN  ImportRecords(emptied, cid, document.prompts, next)

(***************************************************************************)
(* The Prompt Library plugin's handlers.  Each action is one call of the   *)
(* handler: it records the handler and its argument in op, the message it  *)
(* returns in status and the mutating store call it makes in storeCall.    *)
(***************************************************************************)
NoCall == [op |-> "none", coll |-> NoCollection, pid |-> NoPrompt]

Call(o, c, p) == [op |-> o, coll |-> c, pid |-> p]

Handler(name, c, p) == [name |-> name, coll |-> c, pid |-> p]

\* the messages of the handlers whose store call changed the document
SuccessStatuses ==
    {"Saved prompt", "Deleted prompt", "Created collection", "Deleted collection",
     "Collection imported successfully", "Loaded prompt", "Loaded prompt with settings",
     "Added to favorites", "Removed from favorites"}

\* whether the step wrote the store's file: save_library() at the end of a
\* successful mutation, or called by on_tab_deselect
StoreWrote ==
    \/ op'.name = "on_tab_deselect"
    \/ op'.name = "track_prompt_usage" /\ storeCall' # NoCall
    \/ /\ op'.name \notin {"on_tab_deselect", "track_prompt_usage"}
       /\ storeCall' # NoCall
       /\ status' \in SuccessStatuses

\* fileState follows the writers of the file: "external" while the file holds
\* an external edit the store has not loaded, "overwritten" once the store
\* has written over such an edit, "synced" otherwise
FileStateAfter ==
    fileState' =
        IF op'.name = "external edit" THEN "external"
        ELSE IF op'.name \in {"on_tab_select", "__init__"} THEN "synced"
        ELSE IF StoreWrote THEN IF fileState = "external" THEN "overwritten" ELSE "synced"
        ELSE fileState

\* _extract_collection_id(display_name): the id of the first collection whose
\* display name is display_name, None when there is none
_extract_collection_id(doc, display_name) ==
    LET names == get_collection_names(doc)
        hits == { i \in 1..Len(names) : names[i][1] = display_name }
    IN  IF hits = {} THEN NoCollection
        ELSE names[CHOOSE i \in hits : \A j \in hits : i <= j][2]

\* _render_prompt_gallery(collection_display_name, search, tags): the cards of
\* the gallery, each card named by the id of its record and the cards in the
\* order of the store's answer; found is FALSE for 'Collection not found'
_render_prompt_gallery(doc, collection_display_name, search, tags) ==
    LET collection_id == _extract_collection_id(doc, collection_display_name)
        prompts == get_prompts_in_collection(doc, collection_id, search, tags)
    IN  IF collection_id = NoCollection
        THEN [found |-> FALSE, cards |-> <<>>]
        ELSE [found |-> TRUE, cards |-> [k \in 1..Len(prompts) |-> prompts[k].id]]

\* new_choices[0] if new_choices else "favorites"
FirstChoice(doc) ==
    IF doc.collections = <<>> THEN FAVORITES ELSE get_collection_names(doc)[1][1]

\* _on_collection_change(collection_display, search, tags): the radio of the
\* collections was changed
_on_collection_change(collection_display, search, tags) ==
    /\ op' = Handler("_on_collection_change", collection_display, NoPrompt)
    /\ storeCall' = NoCall
    /\ status' = ""
    /\ selected_collection' = _extract_collection_id(data, collection_display)
    /\ prompt_gallery' = _render_prompt_gallery(data, collection_display, search, tags)
    /\ selected_prompt_state' = NoPrompt
    /\ UNCHANGED <<data, disk, now, nextId, exports, exportChoices, settings>>
    /\ UNCHANGED nonLibVars
    /\ FileStateAfter

\* _on_search_or_filter_change(collection_display, search, tags): the search box
\* or the tag filter was changed
_on_search_or_filter_change(collection_display, search, tags) ==
    /\ op' = Handler("_on_search_or_filter_change", collection_display, NoPrompt)
    /\ storeCall' = NoCall
    /\ status' = ""
    /\ prompt_gallery' = _render_prompt_gallery(data, collection_display, search, tags)
    /\ selected_prompt_state' = NoPrompt
    /\ UNCHANGED <<data, disk, now, nextId, exports, exportChoices, selected_collection,
                   settings>>
    /\ UNCHANGED nonLibVars
    /\ FileStateAfter

\* the id _create_new_collection gives a new collection
NewCollectionId(doc, name, time) ==
    LET collection_id == ReplaceChar(Lower(name), " ", "_")
    IN  IF HasCollection(doc, collection_id)
        THEN collection_id \o <<"_">> \o IntToStr(time)
        ELSE collection_id

\* _create_new_collection(name), called dt seconds after the last clock reading
_create_new_collection(name, dt) ==
    /\ Len(data.collections) <= MaxCollections
    /\ now + dt <= MaxTime
    /\ now' = now + dt
    /\ op' = Handler("_create_new_collection", name, NoPrompt)
    /\ IF name = <<>> \/ Strip(name) = <<>>
       THEN /\ status' = "Please enter a collection name"
            /\ storeCall' = NoCall
            /\ UNCHANGED <<data, disk>>
       ELSE LET collection_id == NewCollectionId(data, name, now')
            IN  /\ storeCall' = Call("create_collection", collection_id, NoPrompt)
                /\ IF create_collection_ok(data, collection_id)
                   THEN /\ data' = create_collection(data, collection_id, name)
                        /\ disk' = data'
                        /\ status' = "Created collection"
                   ELSE /\ status' = "Failed to create collection"
                        /\ UNCHANGED <<data, disk>>
    /\ UNCHANGED <<nextId, exports, exportChoices, prompt_gallery, selected_prompt_state,
                   selected_collection, settings>>
    /\ UNCHANGED nonLibVars
    /\ FileStateAfter

\* _delete_collection without its test for the reserved collection
_delete_collection_unguarded(collection_display) ==
    LET collection_id == _extract_collection_id(data, collection_display)
    IN  /\ op' = Handler("_delete_collection", collection_display, NoPrompt)
        /\ IF collection_id = NoCollection
           THEN /\ status' = "Collection not found"
                /\ storeCall' = NoCall
                /\ UNCHANGED <<data, disk>>
           ELSE /\ storeCall' = Call("delete_collection", collection_id, NoPrompt)
                /\ IF delete_collection_ok(data, collection_id)
                   THEN /\ data' = delete_collection(data, collection_id)
                        /\ disk' = data'
                        /\ status' = "Deleted collection"
                   ELSE /\ status' = "Failed to delete collection"
                        /\ UNCHANGED <<data, disk>>
        /\ UNCHANGED <<now, nextId, exports, exportChoices, selected_prompt_state,
                       selected_collection, settings>>
        /\ prompt_gallery' =
               IF status' = "Deleted collection"
               THEN _render_prompt_gallery(data', FirstChoice(data'), <<>>, <<>>)
               ELSE prompt_gallery
        /\ UNCHANGED nonLibVars
        /\ FileStateAfter

_delete_collection(collection_display) ==
    LET collection_id == _extract_collection_id(data, collection_display)
    IN  /\ op' = Handler("_delete_collection", collection_display, NoPrompt)
        /\ IF collection_id = NoCollection
           THEN /\ status' = "Collection not found"
                /\ storeCall' = NoCall
                /\ UNCHANGED <<data, disk>>
           ELSE IF collection_id = FAVORITES
           THEN /\ status' = "Cannot delete Favorites collection"
                /\ storeCall' = NoCall
                /\ UNCHANGED <<data, disk>>
           ELSE /\ storeCall' = Call("delete_collection", collection_id, NoPrompt)
                /\ IF delete_collection_ok(data, collection_id)
                   THEN /\ data' = delete_collection(data, collection_id)
                        /\ disk' = data'
                        /\ status' = "Deleted collection"
                   ELSE /\ status' = "Failed to delete collection"
                        /\ UNCHANGED <<data, disk>>
        /\ UNCHANGED <<now, nextId, exports, exportChoices, selected_prompt_state,
                       selected_collection, settings>>
        /\ prompt_gallery' =
               IF status' = "Deleted collection"
               THEN _render_prompt_gallery(data', FirstChoice(data'), <<>>, <<>>)
               ELSE prompt_gallery
        /\ UNCHANGED nonLibVars
        /\ FileStateAfter

\* _export_collection(collection_display), with the outcome of output_dir.mkdir
\* and of writing the file; "raised" is an exception leaving the handler
_export_collection(collection_display, mkdir, write) ==
    LET collection_id == _extract_collection_id(data, collection_display)
        export_data == export_collection(data, collection_id)
    IN  /\ op' = Handler("_export_collection", collection_display, NoPrompt)
        /\ storeCall' = NoCall
        /\ IF collection_id = NoCollection
           THEN status' = "Collection not found" /\ UNCHANGED exports
           ELSE IF export_data = <<>>
           THEN status' = "Failed to export collection" /\ UNCHANGED exports
           ELSE IF mkdir = "error"
           THEN status' = "raised" /\ UNCHANGED exports
           ELSE IF write = "error"
           THEN status' = "Error exporting collection" /\ UNCHANGED exports
           ELSE /\ status' = "Collection exported"
                /\ exports' = [c \in DOMAIN exports \cup {collection_id} |->
                                  IF c = collection_id THEN export_data[1] ELSE exports[c]]
        /\ UNCHANGED <<data, disk, now, nextId, exportChoices, prompt_gallery,
                       selected_prompt_state, selected_collection, settings>>
        /\ UNCHANGED nonLibVars
        /\ FileStateAfter

\* _import_collection(file_obj, merge): file is [kind, document] with kind
\* "none" (no file chosen), "unreadable" (open or json.load raises) or "json"
_import_collection(file, merge) ==
    /\ op' = Handler("_import_collection", NoCollection, NoPrompt)
    /\ IF file.kind = "none"
       THEN /\ status' = "Please select a file to import"
            /\ storeCall' = NoCall
            /\ UNCHANGED <<data, disk, nextId>>
       ELSE IF file.kind = "unreadable"
       THEN /\ status' = "Error importing collection"
            /\ storeCall' = NoCall
            /\ UNCHANGED <<data, disk, nextId>>
       ELSE /\ storeCall' = Call("import_collection", NoCollection, NoPrompt)
            /\ IF import_collection_ok(data, file.document)
               THEN LET imported == import_collection(data, file.document, merge, nextId)
                    IN  /\ imported.next <= MaxPrompts + 1
                        /\ Len(imported.doc.collections) <= MaxCollections + 1
                        /\ Len(AllPrompts(imported.doc)) <= MaxPrompts
                        /\ data' = imported.doc
                        /\ disk' = data'
                        /\ nextId' = imported.next
                        /\ status' = "Collection imported successfully"
               ELSE /\ status' = "Failed to import collection"
                    /\ UNCHANGED <<data, disk, nextId>>
    /\ UNCHANGED <<now, exports, exportChoices, selected_prompt_state,
                   selected_collection, settings>>
    /\ prompt_gallery' =
           IF status' = "Collection imported successfully"
           THEN _render_prompt_gallery(data', FirstChoice(data'), <<>>, <<>>)
           ELSE prompt_gallery
    /\ UNCHANGED nonLibVars
    /\ FileStateAfter

(***************************************************************************)
(* The prompt handlers.                                                    *)
(***************************************************************************)
\* dict.get(key, default)
Get(dict, key, default) == IF key \in DOMAIN dict THEN dict[key] ELSE default

\* dict[key] = value
Put(dict, key, value) ==
    [k \in DOMAIN dict \cup {key} |-> IF k = key THEN value ELSE dict[k]]

\* _on_prompt_selected(prompt_id): a click on a card of the gallery
_on_prompt_selected(prompt_id) ==
    /\ op' = Handler("_on_prompt_selected", NoCollection, prompt_id)
    /\ storeCall' = NoCall
    /\ status' = ""
    /\ selected_prompt_state' =
           IF prompt_id = NoPrompt \/ get_prompt(data, prompt_id) = <<>>
           THEN NoPrompt ELSE prompt_id
    /\ UNCHANGED <<data, disk, now, nextId, exports, exportChoices, prompt_gallery,
                   selected_collection, settings>>
    /\ UNCHANGED nonLibVars
    /\ FileStateAfter

\* the settings after the handler has written the prompt and, when the record
\* has one, the negative prompt
WithPrompt(current, prompt_data, final_prompt) ==
    LET s1 == Put(current, "prompt", final_prompt)
    IN  IF prompt_data.negative_prompt # <<>>
        THEN Put(s1, "negative_prompt", prompt_data.negative_prompt)
        ELSE s1

\* a loop over saved_settings without its test `if key in settings`: every
\* saved key is written
ApplySaved_every_key(current, saved) ==
    [k \in DOMAIN current \cup DOMAIN saved |-> IF k \in DOMAIN saved THEN saved[k] ELSE current[k]]

\* the loop over saved_settings: a saved key is applied when the current
\* settings have it
ApplySaved(current, saved) ==
    [k \in DOMAIN current |-> IF k \in DOMAIN saved THEN saved[k] ELSE current[k]]

\* _use_prompt_only without its test of what get_prompt returned: reading
\* prompt_data["prompt"] of None raises
_use_prompt_only_unchecked(prompt_id, variables, dt) ==
    /\ op' = Handler("_use_prompt_only", NoCollection, prompt_id)
    /\ IF prompt_id = NoPrompt
       THEN /\ status' = "Please select a prompt first"
            /\ storeCall' = NoCall
            /\ UNCHANGED <<data, disk, settings, now>>
       ELSE IF get_prompt(data, prompt_id) = <<>>
       THEN /\ status' = "raised"
            /\ storeCall' = NoCall
            /\ UNCHANGED <<data, disk, settings, now>>
       ELSE LET prompt_data == get_prompt(data, prompt_id)[1]
                final_prompt == _substitute_variables(prompt_data.prompt, variables)
            IN  /\ prompt_data.use_count < MaxUse
                /\ now + dt <= MaxTime
                /\ now' = now + dt
                /\ settings' = WithPrompt(settings, prompt_data, final_prompt)
                /\ storeCall' = Call("record_usage", NoCollection, prompt_id)
                /\ data' = record_usage(data, prompt_id, now')
                /\ disk' = data'
                /\ status' = "Loaded prompt"
    /\ UNCHANGED <<nextId, exports, exportChoices, prompt_gallery, selected_prompt_state,
                   selected_collection>>
    /\ UNCHANGED nonLibVars
    /\ FileStateAfter

_use_prompt_only(prompt_id, variables, dt) ==
    /\ op' = Handler("_use_prompt_only", NoCollection, prompt_id)
    /\ IF prompt_id = NoPrompt
       THEN /\ status' = "Please select a prompt first"
            /\ storeCall' = NoCall
            /\ UNCHANGED <<data, disk, settings, now>>
       ELSE IF get_prompt(data, prompt_id) = <<>>
       THEN /\ status' = "Prompt not found"
            /\ storeCall' = NoCall
            /\ UNCHANGED <<data, disk, settings, now>>
       ELSE LET prompt_data == get_prompt(data, prompt_id)[1]
                final_prompt == _substitute_variables(prompt_data.prompt, variables)
            IN  /\ prompt_data.use_count < MaxUse
                /\ now + dt <= MaxTime
                /\ now' = now + dt
                /\ settings' = WithPrompt(settings, prompt_data, final_prompt)
                /\ storeCall' = Call("record_usage", NoCollection, prompt_id)
                /\ data' = record_usage(data, prompt_id, now')
                /\ disk' = data'
                /\ status' = "Loaded prompt"
    /\ UNCHANGED <<nextId, exports, exportChoices, prompt_gallery, selected_prompt_state,
                   selected_collection>>
    /\ UNCHANGED nonLibVars
    /\ FileStateAfter

\* _use_with_settings without its call of record_usage
_use_with_settings_unrecorded(prompt_id, variables, dt) ==
    /\ op' = Handler("_use_with_settings", NoCollection, prompt_id)
    /\ IF prompt_id = NoPrompt
       THEN /\ status' = "Please select a prompt first"
            /\ UNCHANGED settings
       ELSE IF get_prompt(data, prompt_id) = <<>>
       THEN /\ status' = "Prompt not found"
            /\ UNCHANGED settings
       ELSE LET prompt_data == get_prompt(data, prompt_id)[1]
                final_prompt == _substitute_variables(prompt_data.prompt, variables)
            IN  /\ settings' = ApplySaved(WithPrompt(settings, prompt_data, final_prompt),
                                          prompt_data.settings)
                /\ status' = "Loaded prompt with settings"
    /\ storeCall' = NoCall
    /\ UNCHANGED <<data, disk, now, nextId, exports, exportChoices, prompt_gallery,
                   selected_prompt_state, selected_collection>>
    /\ UNCHANGED nonLibVars
    /\ FileStateAfter

_use_with_settings(prompt_id, variables, dt) ==
    /\ op' = Handler("_use_with_settings", NoCollection, prompt_id)
    /\ IF prompt_id = NoPrompt
       THEN /\ status' = "Please select a prompt first"
            /\ storeCall' = NoCall
            /\ UNCHANGED <<data, disk, settings, now>>
       ELSE IF get_prompt(data, prompt_id) = <<>>
       THEN /\ status' = "Prompt not found"
            /\ storeCall' = NoCall
            /\ UNCHANGED <<data, disk, settings, now>>
       ELSE LET prompt_data == get_prompt(data, prompt_id)[1]
                final_prompt == _substitute_variables(prompt_data.prompt, variables)
            IN  /\ prompt_data.use_count < MaxUse
                /\ now + dt <= MaxTime
                /\ now' = now + dt
                /\ settings' = ApplySaved(WithPrompt(settings, prompt_data, final_prompt),
                                          prompt_data.settings)
                /\ storeCall' = Call("record_usage", NoCollection, prompt_id)
                /\ data' = record_usage(data, prompt_id, now')
                /\ disk' = data'
                /\ status' = "Loaded prompt with settings"
    /\ UNCHANGED <<nextId, exports, exportChoices, prompt_gallery, selected_prompt_state,
                   selected_collection>>
    /\ UNCHANGED nonLibVars
    /\ FileStateAfter

\* _delete_prompt(prompt_id, collection_display); the selected-prompt state is
\* not among its outputs
_delete_prompt(prompt_id, collection_display) ==
    /\ op' = Handler("_delete_prompt", collection_display, prompt_id)
    /\ IF prompt_id = NoPrompt
       THEN /\ status' = "Please select a prompt first"
            /\ storeCall' = NoCall
            /\ UNCHANGED <<data, disk>>
       ELSE IF get_prompt(data, prompt_id) = <<>>
       THEN /\ status' = "Prompt not found"
            /\ storeCall' = NoCall
            /\ UNCHANGED <<data, disk>>
       ELSE /\ storeCall' = Call("delete_prompt", NoCollection, prompt_id)
            /\ IF delete_prompt_ok(data, prompt_id)
               THEN /\ data' = delete_prompt(data, prompt_id)
                    /\ disk' = data'
                    /\ status' = "Deleted prompt"
               ELSE /\ status' = "Failed to delete prompt"
                    /\ UNCHANGED <<data, disk>>
    /\ UNCHANGED <<now, nextId, exports, exportChoices, selected_prompt_state,
                   selected_collection, settings>>
    /\ prompt_gallery' =
           IF status' = "Deleted prompt"
           THEN _render_prompt_gallery(data', collection_display, <<>>, <<>>)
           ELSE prompt_gallery
    /\ UNCHANGED nonLibVars
    /\ FileStateAfter

\* _toggle_favorite without the is_in_favorites test: it always adds
_toggle_favorite_adding(prompt_id) ==
    /\ op' = Handler("_toggle_favorite", NoCollection, prompt_id)
    /\ IF prompt_id = NoPrompt
       THEN /\ status' = "Please select a prompt first"
            /\ storeCall' = NoCall
            /\ UNCHANGED <<data, disk>>
       ELSE /\ storeCall' = Call("add_to_favorites", NoCollection, prompt_id)
            /\ IF add_to_favorites_ok(data, prompt_id)
               THEN /\ data' = add_to_favorites(data, prompt_id)
                    /\ disk' = data'
                    /\ status' = "Added to favorites"
               ELSE /\ status' = "Failed to add to favorites"
                    /\ UNCHANGED <<data, disk>>
    /\ UNCHANGED <<now, nextId, exports, exportChoices, prompt_gallery,
                   selected_prompt_state, selected_collection, settings>>
    /\ UNCHANGED nonLibVars
    /\ FileStateAfter

\* _toggle_favorite(prompt_id): the Favorite button, given the selected-prompt
\* state; it removes a favourite and adds anything else
_toggle_favorite(prompt_id) ==
    /\ op' = Handler("_toggle_favorite", NoCollection, prompt_id)
    /\ IF prompt_id = NoPrompt
       THEN /\ status' = "Please select a prompt first"
            /\ storeCall' = NoCall
            /\ UNCHANGED <<data, disk>>
       ELSE IF is_in_favorites(data, prompt_id)
       THEN /\ storeCall' = Call("remove_from_favorites", NoCollection, prompt_id)
            /\ IF remove_from_favorites_ok(data, prompt_id)
               THEN /\ data' = remove_from_favorites(data, prompt_id)
                    /\ disk' = data'
                    /\ status' = "Removed from favorites"
               ELSE /\ status' = "Failed to remove from favorites"
                    /\ UNCHANGED <<data, disk>>
       ELSE /\ storeCall' = Call("add_to_favorites", NoCollection, prompt_id)
            /\ IF add_to_favorites_ok(data, prompt_id)
               THEN /\ data' = add_to_favorites(data, prompt_id)
                    /\ disk' = data'
                    /\ status' = "Added to favorites"
               ELSE /\ status' = "Failed to add to favorites"
                    /\ UNCHANGED <<data, disk>>
    /\ UNCHANGED <<now, nextId, exports, exportChoices, prompt_gallery,
                   selected_prompt_state, selected_collection, settings>>
    /\ UNCHANGED nonLibVars
    /\ FileStateAfter

\* the tags of the save form: [tag.strip() for tag in tags_str.split(",") if tag.strip()]
RECURSIVE StripAll(_)
StripAll(items) ==
    IF items = <<>> THEN <<>>
    ELSE IF Strip(Head(items)) = <<>> THEN StripAll(Tail(items))
    ELSE <<Strip(Head(items))>> \o StripAll(Tail(items))

ParseTags(tags_str) == StripAll(Split(tags_str, ","))

\* the generation settings _save_current_prompt keeps with a record
SettingsToSave ==
    {"model_type", "resolution", "steps", "guidance_scale", "num_frames", "fps", "seed",
     "sampler"}

SavedSettings(current, include_settings) ==
    IF include_settings
    THEN [k \in (SettingsToSave \cup {"loras"}) \cap DOMAIN current |-> current[k]]
    ELSE <<>>

_save_current_prompt(name, collection, prompt_input, negative_prompt_input, tags_str, include_settings, dt) ==
    LET prompt == IF prompt_input = <<>> THEN Get(settings, "prompt", <<>>)
                  ELSE prompt_input
        negative_prompt ==
            IF prompt_input = <<>> /\ negative_prompt_input = <<>>
            THEN Get(settings, "negative_prompt", <<>>)
            ELSE negative_prompt_input
    IN  /\ op' = Handler("_save_current_prompt", collection, NoPrompt)
        /\ IF name = <<>> \/ Strip(name) = <<>>
           THEN /\ status' = "Please provide a name for the prompt"
                /\ storeCall' = NoCall
                /\ UNCHANGED <<data, disk, nextId, now>>
           ELSE IF prompt = <<>>
           THEN /\ status' = "No prompt to save"
                /\ storeCall' = NoCall
                /\ UNCHANGED <<data, disk, nextId, now>>
           ELSE /\ storeCall' = Call("add_prompt", collection, NoPrompt)
                /\ IF add_prompt_ok(data, collection, Strip(name), prompt)
                   THEN /\ nextId <= MaxPrompts
                        /\ now + dt <= MaxTime
                        /\ now' = now + dt
                        /\ data' = add_prompt(data, collection, Strip(name), prompt,
                                              negative_prompt, ParseTags(tags_str),
                                              SavedSettings(settings, include_settings),
                                              nextId, now')
                        /\ disk' = data'
                        /\ nextId' = nextId + 1
                        /\ status' = "Saved prompt"
                   ELSE /\ status' = "Failed to save prompt"
                        /\ UNCHANGED <<data, disk, nextId, now>>
        /\ UNCHANGED <<exports, exportChoices, selected_prompt_state, selected_collection,
                       settings>>
        /\ prompt_gallery' =
               IF status' = "Saved prompt" /\ selected_collection = collection
               THEN _render_prompt_gallery(
                        data', data'.collections[CollectionIndex(data', collection)].name,
                        <<>>, <<>>)
               ELSE prompt_gallery
        /\ UNCHANGED nonLibVars
        /\ FileStateAfter

\* the user edits the prompt box of the main tab: the handlers read it through
\* get_current_model_settings(state)
main_tab_prompt_edit(text) ==
    /\ settings' = Put(settings, "prompt", text)
    /\ op' = Handler("main tab edit", NoCollection, NoPrompt)
    /\ status' = ""
    /\ storeCall' = NoCall
    /\ UNCHANGED <<data, disk, now, nextId, exports, exportChoices, prompt_gallery,
                   selected_prompt_state, selected_collection>>
    /\ UNCHANGED nonLibVars
    /\ FileStateAfter

\* the user changes the generation form of the main tab: the settings that
\* get_current_model_settings returns are those of form, with the prompt and
\* the negative prompt of the main tab
main_tab_settings_edit(form) ==
    /\ settings' = Put(Put(form, "prompt", settings["prompt"]),
                       "negative_prompt", settings["negative_prompt"])
    /\ settings' # settings
    /\ op' = Handler("main tab edit", NoCollection, NoPrompt)
    /\ status' = ""
    /\ storeCall' = NoCall
    /\ UNCHANGED <<data, disk, now, nextId, exports, exportChoices, prompt_gallery,
                   selected_prompt_state, selected_collection>>
    /\ UNCHANGED nonLibVars
    /\ FileStateAfter

\* track_prompt_usage with a record_usage that leaves the file as it is
track_prompt_usage_unflushed(configs, dt) ==
    LET prompt == Get(configs, "prompt", <<>>)
        matching == find_by_prompt(data, prompt)
    IN  /\ op' = Handler("track_prompt_usage", NoCollection, NoPrompt)
        /\ IF prompt # <<>> /\ matching # <<>>
           THEN /\ matching[1].use_count < MaxUse
                /\ now + dt <= MaxTime
                /\ now' = now + dt
                /\ storeCall' = Call("record_usage", NoCollection, matching[1].id)
                /\ data' = record_usage(data, matching[1].id, now')
           ELSE /\ storeCall' = NoCall
                /\ UNCHANGED <<data, now>>
        /\ UNCHANGED <<disk, nextId, exports, exportChoices, prompt_gallery,
                       selected_prompt_state, selected_collection, settings, status>>
        /\ UNCHANGED nonLibVars
        /\ FileStateAfter

\* track_prompt_usage(configs): the before_metadata_save hook, called with the
\* settings of the generation that ran
track_prompt_usage(configs, dt) ==
    LET prompt == Get(configs, "prompt", <<>>)
        matching == find_by_prompt(data, prompt)
    IN  /\ op' = Handler("track_prompt_usage", NoCollection, NoPrompt)
        /\ IF prompt # <<>> /\ matching # <<>>
           THEN /\ matching[1].use_count < MaxUse
                /\ now + dt <= MaxTime
                /\ now' = now + dt
                /\ storeCall' = Call("record_usage", NoCollection, matching[1].id)
                /\ data' = record_usage(data, matching[1].id, now')
                /\ disk' = data'
           ELSE /\ storeCall' = NoCall
                /\ UNCHANGED <<data, disk, now>>
        /\ UNCHANGED <<nextId, exports, exportChoices, prompt_gallery,
                       selected_prompt_state, selected_collection, settings, status>>
        /\ UNCHANGED nonLibVars
        /\ FileStateAfter

\* _load_library(): the document of the file
_load_library(file) == file

\* on_tab_select: the document is read again from the file
on_tab_select ==
    /\ op' = Handler("on_tab_select", NoCollection, NoPrompt)
    /\ storeCall' = NoCall
    /\ data' = _load_library(disk)
    /\ UNCHANGED <<disk, now, nextId, exports, exportChoices, prompt_gallery,
                   selected_prompt_state, selected_collection, settings, status>>
    /\ UNCHANGED nonLibVars
    /\ FileStateAfter

\* on_tab_deselect with a save that keeps the collections of the file which the
\* document does not have
on_tab_deselect_merging ==
    /\ op' = Handler("on_tab_deselect", NoCollection, NoPrompt)
    /\ storeCall' = Call("save_library", NoCollection, NoPrompt)
    /\ disk' = [data EXCEPT !.collections =
                   @ \o SelectSeq(disk.collections, LAMBDA c : ~HasCollection(data, c.id))]
    /\ UNCHANGED <<data, now, nextId, exports, exportChoices, prompt_gallery,
                   selected_prompt_state, selected_collection, settings, status>>
    /\ UNCHANGED nonLibVars
    /\ FileStateAfter

\* on_tab_deselect: save_library() writes the document to the file
on_tab_deselect ==
    /\ op' = Handler("on_tab_deselect", NoCollection, NoPrompt)
    /\ storeCall' = Call("save_library", NoCollection, NoPrompt)
    /\ disk' = data
    /\ UNCHANGED <<data, now, nextId, exports, exportChoices, prompt_gallery,
                   selected_prompt_state, selected_collection, settings, status>>
    /\ UNCHANGED nonLibVars
    /\ FileStateAfter

(***************************************************************************)
(* The LoRA Manager plugin: lora_metadata (key -> {"prompt": text}), its   *)
(* JSON file db_path, and the sidecar JSON files of the LoRA files.  A     *)
(* dict is a function on its keys.  File and network operations take their *)
(* outcome ("ok" or "error") as an input.                                  *)
(***************************************************************************)
EmptyDict == <<>>

\* what a handler of these plugins did: its name, whether a file write or a
\* fetch failed inside it, and the message it gave the user ("" for none)
Did(name, failed, message) == [name |-> name, failed |-> failed, message |-> message]

\* LoraManagerPlugin.save_metadata(key, prompt)
save_metadata(key0, prompt, write) ==
    /\ IF key0 = <<>>
       THEN /\ call' = Did("save_metadata", FALSE, "")
            /\ UNCHANGED <<lora_metadata, db_file>>
       ELSE LET key == ReplaceChar(key0, "\\", "/")
                entry == Get(lora_metadata, key, EmptyDict)
            IN  /\ lora_metadata' = Put(lora_metadata, key, Put(entry, "prompt", prompt))
                /\ IF write = "ok"
                   THEN /\ db_file' = lora_metadata'
                        /\ call' = Did("save_metadata", FALSE, "Saved prompt!")
                   ELSE \* gr.Error(...) is built but not raised: nothing is shown
                        /\ UNCHANGED db_file
                        /\ call' = Did("save_metadata", TRUE, "")
    /\ UNCHANGED <<sidecars, models_def, model_file>>
    /\ UNCHANGED injectVars
    /\ UNCHANGED <<applyVars, refreshVars>>
    /\ UNCHANGED nonLoraVars

\* the file a key stands for: 'loras/./f' is the file 'loras/f'
NormPath(key) ==
    IF Len(key) >= 2 /\ key[1] = "." /\ key[2] = "/" THEN SubSeq(key, 3, Len(key)) ELSE key

\* a test that sets the default prompt whenever the answer has trained words
sets_prompt_whenever_words(trained_words, current_prompt) == trained_words # <<>>

\* `if trained_words and not current_prompt`: the default prompt is set only
\* when the answer has trained words and no prompt is stored
sets_prompt(trained_words, current_prompt) == trained_words # <<>> /\ current_prompt = <<>>

\* the body of _fetch_and_process_single_lora on the metadata, the DB file and
\* the sidecar files: what they are after it, the pair (success, msg) it
\* returns, and whether a fetch or a file write failed inside it
ProcessSingleLora(metadata, db, sidecar_files, key, fetch, fetched, sidecarWrite, dbWrite) ==
    LET unchanged(success, failed, msg) ==
            [lora_metadata |-> metadata, db_file |-> db, sidecars |-> sidecar_files,
             success |-> success, failed |-> failed, msg |-> msg]
        trained_words == fetched
        current_prompt == Get(Get(metadata, key, EmptyDict), "prompt", <<>>)
        new_prompt == Join(trained_words, <<",", " ">>)
        entry == Get(metadata, key, EmptyDict)
        with_prompt == Put(metadata, key, Put(entry, "prompt", new_prompt))
    IN  IF fetch = "error" THEN unchanged(FALSE, TRUE, "fetch error")
        ELSE IF sidecarWrite = "error" THEN unchanged(FALSE, TRUE, "JSON save failed")
        ELSE IF sets_prompt(trained_words, current_prompt)
        THEN IF dbWrite = "ok"
             THEN [lora_metadata |-> with_prompt, db_file |-> with_prompt,
                   sidecars |-> Put(sidecar_files, NormPath(key), fetched),
                   success |-> TRUE, failed |-> FALSE,
                   msg |-> "Metadata updated. Default prompt set from triggers."]
             ELSE [lora_metadata |-> with_prompt, db_file |-> db,
                   sidecars |-> Put(sidecar_files, NormPath(key), fetched),
                   success |-> TRUE, failed |-> TRUE,
                   msg |-> "Metadata updated, but DB save failed"]
        ELSE [lora_metadata |-> metadata, db_file |-> db,
              sidecars |-> Put(sidecar_files, NormPath(key), fetched),
              success |-> TRUE, failed |-> FALSE, msg |-> "Metadata updated."]

\* LoraManagerPlugin._fetch_and_process_single_lora(full_path, key); fetched is
\* the trainedWords of the answer of fetch_civitai_data
_fetch_and_process_single_lora(key, fetch, fetched, sidecarWrite, dbWrite) ==
    /\ LET done == ProcessSingleLora(lora_metadata, db_file, sidecars, key, fetch, fetched,
                                     sidecarWrite, dbWrite)
       IN  /\ lora_metadata' = done.lora_metadata
           /\ db_file' = done.db_file
           /\ sidecars' = done.sidecars
           /\ call' = Did("_fetch_and_process_single_lora", done.failed, done.msg)
    /\ UNCHANGED <<models_def, model_file>>
    /\ UNCHANGED injectVars
    /\ UNCHANGED <<applyVars, refreshVars>>
    /\ UNCHANGED nonLoraVars

\* load_json_db(), at the start of a run: the file's content, {} if unreadable
load_json_db(read) ==
    /\ lora_metadata' = IF read = "ok" THEN db_file ELSE EmptyDict
    /\ call' = Did("load_json_db", FALSE, "")
    /\ UNCHANGED <<db_file, sidecars>>
    /\ UNCHANGED <<models_def, model_file>>
    /\ UNCHANGED injectVars
    /\ UNCHANGED <<applyVars, refreshVars>>
    /\ UNCHANGED nonLoraVars

\* the directories os.walk(self.lora_root) visits, each with its path relative
\* to lora_root and the files in it
LoraTree ==
    << [rel |-> <<".">>, files |-> { <<"f">> }],
       [rel |-> <<"d">>, files |-> { <<"k">>, <<"j">> }] >>

\* os.path.basename(path)
RECURSIVE Basename(_)
Basename(path) ==
    IF Contains(path, "/") THEN Basename(Tail(path)) ELSE path

\* resolve_path(item_name): the key of the pair it returns
resolve_path(item_name) ==
    LET is_recursive == Contains(item_name, "/")
        hits == { i \in 1..Len(LoraTree) : item_name \in LoraTree[i].files }
        first == CHOOSE i \in hits : \A j \in hits : i <= j
        key == IF is_recursive THEN item_name
               ELSE IF hits = {} THEN <<>>
               ELSE LoraTree[first].rel \o <<"/">> \o item_name
    IN  ReplaceChar(key, "\\", "/")

\* the (basename, prompt) of the selected LoRAs that have a stored prompt
RECURSIVE StoredPrompts(_, _)
StoredPrompts(selected_loras, metadata) ==
    IF selected_loras = <<>> THEN <<>>
    ELSE LET l == Head(selected_loras)
             p == Get(Get(metadata, resolve_path(l), EmptyDict), "prompt", <<>>)
         IN  (IF p # <<>> THEN << <<Basename(l), p>> >> ELSE <<>>)
                 \o StoredPrompts(Tail(selected_loras), metadata)

\* the basenames of the selected LoRAs appended to final_loras, each once
RECURSIVE AppendBasenames(_, _)
AppendBasenames(final_loras, selected_loras_list) ==
    IF selected_loras_list = <<>> THEN final_loras
    ELSE LET base == Basename(Head(selected_loras_list))
         IN  AppendBasenames(
                 IF \E i \in 1..Len(final_loras) : final_loras[i] = base
                 THEN final_loras ELSE Append(final_loras, base),
                 Tail(selected_loras_list))

\* _perform_inject(...): the new prompt and the new LoRA selection
_perform_inject(selected_loras_list, prompt_text, prompt_mode, lora_mode, current_ui_prompt, current_ui_loras) ==
    [prompt |->
         IF prompt_mode = "Overwrite" THEN prompt_text
         ELSE IF prompt_text = <<>> THEN current_ui_prompt
         ELSE IF current_ui_prompt = <<>> THEN prompt_text
         ELSE current_ui_prompt \o <<"\n">> \o prompt_text,
     loras |->
         AppendBasenames(IF lora_mode = "Overwrite" THEN <<>> ELSE current_ui_loras,
                         selected_loras_list)]

\* the choices of the conflict panel's radio
ConflictChoices(prompts) ==
    LET combined_str == Join([i \in 1..Len(prompts) |-> prompts[i][2]], <<",", " ">>)
    IN  [i \in 1..Len(prompts) |->
            [label |-> "Use prompt only", name |-> prompts[i][1], value |-> prompts[i][2]]]
        \o (IF combined_str # <<>>
            THEN << [label |-> "Combine All Prompts", name |-> <<>>, value |-> combined_str] >>
            ELSE <<>>)
        \o << [label |-> "Don't add prompt (LoRAs only)", name |-> <<>>, value |-> <<>>] >>

\* prepare_injection(selected_loras, prompt_mode, lora_mode): the button
\* 'Send to Generator'
prepare_injection(selected_loras, prompt_mode, lora_mode) ==
    LET prompts == StoredPrompts(selected_loras, lora_metadata)
        p_text == IF prompts # <<>> THEN prompts[1][2] ELSE <<>>
        single == _perform_inject(selected_loras, p_text, prompt_mode, lora_mode, <<>>, <<>>)
        bare == _perform_inject(selected_loras, <<>>, prompt_mode, lora_mode, <<>>, <<>>)
    IN  /\ IF selected_loras = <<>>
           THEN /\ call' = Did("prepare_injection", FALSE, "No LoRAs selected.")
                /\ conflict_panel' = FALSE
                /\ UNCHANGED <<prompt_choice, ui_prompt, loras_choices>>
           ELSE IF Len(selected_loras) = 1
           THEN /\ call' = Did("prepare_injection", FALSE, "Injected LoRAs")
                /\ conflict_panel' = FALSE
                /\ ui_prompt' = single.prompt
                /\ loras_choices' = single.loras
                /\ UNCHANGED prompt_choice
           ELSE IF prompts = <<>>
           THEN /\ call' = Did("prepare_injection", FALSE, "Injected LoRAs")
                /\ conflict_panel' = FALSE
                /\ ui_prompt' = bare.prompt
                /\ loras_choices' = bare.loras
                /\ UNCHANGED prompt_choice
           ELSE /\ call' = Did("prepare_injection", FALSE, "")
                /\ conflict_panel' = TRUE
                /\ prompt_choice' =
                       [choices |-> ConflictChoices(prompts),
                        value |-> Join([i \in 1..Len(prompts) |-> prompts[i][2]],
                                       <<",", " ">>)]
                /\ UNCHANGED <<ui_prompt, loras_choices>>
        /\ UNCHANGED <<lora_metadata, db_file, sidecars, models_def, model_file>>
        /\ UNCHANGED <<applyVars, refreshVars>>
        /\ UNCHANGED nonLoraVars

\* reset_conflict_panel(): the panel's Cancel button
reset_conflict_panel ==
    /\ conflict_panel
    /\ conflict_panel' = FALSE
    /\ prompt_choice' = [prompt_choice EXCEPT !.value = <<>>]
    /\ call' = Did("reset_conflict_panel", FALSE, "")
    /\ UNCHANGED <<ui_prompt, loras_choices>>
    /\ UNCHANGED <<lora_metadata, db_file, sidecars, models_def, model_file>>
    /\ UNCHANGED <<applyVars, refreshVars>>
    /\ UNCHANGED nonLoraVars

\* finalize_injection(...): the panel's Confirm button; the list still holds
\* a selection of several LoRAs, any other change of the list hiding the
\* panel, and prompt_choice_value is the radio's value or a choice the user
\* made in it; the model follows prompts up to MaxPromptLength
finalize_injection(selected_loras, prompt_choice_value, prompt_mode, lora_mode) ==
    /\ Len(ui_prompt) <= MaxPromptLength
    /\ conflict_panel
    /\ Len(selected_loras) > 1
    /\ \/ prompt_choice_value = prompt_choice.value
       \/ \E i \in 1..Len(prompt_choice.choices) :
              prompt_choice_value = prompt_choice.choices[i].value
    /\ LET done == _perform_inject(selected_loras, prompt_choice_value, prompt_mode,
                                   lora_mode, ui_prompt, loras_choices)
       IN  /\ ui_prompt' = done.prompt
           /\ loras_choices' = done.loras
    /\ conflict_panel' = FALSE
    /\ prompt_choice' = [prompt_choice EXCEPT !.value = prompt_choice_value]
    /\ call' = Did("finalize_injection", FALSE, "Injected LoRAs")
    /\ UNCHANGED <<lora_metadata, db_file, sidecars, models_def, model_file>>
    /\ UNCHANGED <<applyVars, refreshVars>>
    /\ UNCHANGED nonLoraVars

\* the host's generator tab: the user writes a prompt and picks LoRAs there
generator_edit(prompt, loras) ==
    /\ ui_prompt' = prompt
    /\ loras_choices' = loras
    /\ call' = Did("generator_edit", FALSE, "")
    /\ UNCHANGED <<conflict_panel, prompt_choice>>
    /\ UNCHANGED <<lora_metadata, db_file, sidecars, models_def, model_file>>
    /\ UNCHANGED <<applyVars, refreshVars>>
    /\ UNCHANGED nonLoraVars

\* the category 'All LoRAs' of the dropdown, a category being a folder name
ALL_LORAS == << "All LoRAs" >>

\* update_list_by_category(category): the choices of the LoRA list, as a set
\* (the code sorts them); every file of LoraTree is a LoRA file
update_list_by_category(category) ==
    IF category = ALL_LORAS
    THEN UNION { { IF LoraTree[i].rel = <<".">> THEN f ELSE LoraTree[i].rel \o <<"/">> \o f :
                     f \in LoraTree[i].files } : i \in 1..Len(LoraTree) }
    ELSE UNION { IF LoraTree[i].rel = category THEN LoraTree[i].files ELSE {} :
                   i \in 1..Len(LoraTree) }

\* self.refresh_trigger.value: the value the gr.State component was built
\* with, which a session's updates of the state do not change
RefreshTriggerValue == 0

\* what a handler leaves in refresh_trigger when it returns a pair of
\* gr.update() for this single output
UpdatePair == -1

\* the key batch_update_metadata computes for an item of the list
BatchKey(category, item_name) ==
    IF category = ALL_LORAS THEN ReplaceChar(item_name, "\\", "/")
    ELSE ReplaceChar(category \o <<"/">> \o item_name, "\\", "/")

\* the loop of batch_update_metadata from the i-th file on; acc holds the
\* metadata, the files and the two counts; outcomes[i] tells whether the i-th
\* file exists and what its fetch and its writes do
RECURSIVE BatchLoop(_, _, _, _, _)
BatchLoop(acc, category, current_files, outcomes, i) ==
    IF i > Len(current_files) THEN acc
    ELSE LET o == outcomes[i]
             key == BatchKey(category, current_files[i])
             done == ProcessSingleLora(acc.lora_metadata, acc.db_file, acc.sidecars, key,
                                       o.fetch, o.fetched, o.sidecarWrite, o.dbWrite)
             next == IF ~o.exists THEN acc
                     ELSE [lora_metadata |-> done.lora_metadata, db_file |-> done.db_file,
                           sidecars |-> done.sidecars,
                           updated_count |-> acc.updated_count
                                                 + (IF done.success THEN 1 ELSE 0),
                           error_count |-> acc.error_count
                                               + (IF done.success THEN 0 ELSE 1)]
         IN  BatchLoop(next, category, current_files, outcomes, i + 1)

\* LoraManagerPlugin.batch_update_metadata(state, category, current_files): the
\* button 'Update All (Visible)'
batch_update_metadata(category, current_files, outcomes) ==
    /\ IF current_files = <<>>
       THEN /\ call' = Did("batch_update_metadata", FALSE, "No files to update.")
            /\ refresh_trigger' = UpdatePair
            /\ UNCHANGED <<lora_metadata, db_file, sidecars, batch_totals>>
       ELSE LET done == BatchLoop([lora_metadata |-> lora_metadata, db_file |-> db_file,
                                   sidecars |-> sidecars, updated_count |-> 0,
                                   error_count |-> 0],
                                  category, current_files, outcomes, 1)
            IN  /\ lora_metadata' = done.lora_metadata
                /\ db_file' = done.db_file
                /\ sidecars' = done.sidecars
                /\ batch_totals' = << [updated |-> done.updated_count,
                                       failed |-> done.error_count,
                                       files |-> Len(current_files)] >>
                /\ call' = Did("batch_update_metadata", FALSE, "Batch Update Complete.")
                /\ refresh_trigger' = RefreshTriggerValue + 1
    /\ UNCHANGED <<models_def, model_file>>
    /\ UNCHANGED injectVars
    /\ UNCHANGED applyVars
    /\ UNCHANGED nonLoraVars

\* perform_update and perform_manual_fetch of the card rendered for lora_name
PerformFetch(name, lora_name, fetch, fetched, sidecarWrite, dbWrite) ==
    /\ LET done == ProcessSingleLora(lora_metadata, db_file, sidecars, resolve_path(lora_name),
                                     fetch, fetched, sidecarWrite, dbWrite)
       IN  /\ lora_metadata' = done.lora_metadata
           /\ db_file' = done.db_file
           /\ sidecars' = done.sidecars
           /\ call' = Did(name, done.failed, done.msg)
    /\ refresh_trigger' = 1
    /\ UNCHANGED batch_totals
    /\ UNCHANGED <<models_def, model_file>>
    /\ UNCHANGED injectVars
    /\ UNCHANGED applyVars
    /\ UNCHANGED nonLoraVars

\* perform_update(): 'Update Info', on a card that has a sidecar file
perform_update(lora_name, fetch, fetched, sidecarWrite, dbWrite) ==
    /\ NormPath(resolve_path(lora_name)) \in DOMAIN sidecars
    /\ PerformFetch("perform_update", lora_name, fetch, fetched, sidecarWrite, dbWrite)

\* perform_manual_fetch(): 'Fetch Info from CivitAI', on a card that has none
perform_manual_fetch(lora_name, fetch, fetched, sidecarWrite, dbWrite) ==
    /\ NormPath(resolve_path(lora_name)) \notin DOMAIN sidecars
    /\ PerformFetch("perform_manual_fetch", lora_name, fetch, fetched, sidecarWrite, dbWrite)

(***************************************************************************)
(* The System Prompt Manager plugin: models_def (model type -> definition, *)
(* a dict that may hold the two instruction keys) and the "model" block of *)
(* each definition file.  None is <<>>, a text t is <<t>>.                  *)
(***************************************************************************)
IMAGE_KEY == "image_prompt_enhancer_instructions"

VIDEO_KEY == "video_prompt_enhancer_instructions"

\* the model types the host displays, and the one of the host's state
displayed_model_types == << "m" >>

get_state_model_type == "m"

\* a _clean_prompt that keeps every text that is not None as it is
_clean_prompt_unstripped(prompt_text) == prompt_text

\* _clean_prompt(prompt_text)
_clean_prompt(prompt_text) ==
    IF prompt_text = <<>> THEN <<>>
    ELSE IF Strip(prompt_text[1]) = <<>> THEN <<>>
    ELSE << Strip(prompt_text[1]) >>

\* _resolve_model_type(state, selected_model_type)
_resolve_model_type(selected_model_type) ==
    LET model_type == IF selected_model_type # <<>> THEN selected_model_type[1]
                      ELSE get_state_model_type
    IN  IF \E i \in 1..Len(displayed_model_types) : displayed_model_types[i] = model_type
        THEN model_type
        ELSE displayed_model_types[1]

\* _get_model_prompts(model_type): the image prompt, the video prompt and the
\* first line of the message; model_type is <<>> for None
_get_model_prompts(defs, model_type) ==
    IF model_type = <<>>
    THEN [image |-> <<>>, video |-> <<>>, message |-> "Select a model"]
    ELSE IF model_type[1] \notin DOMAIN defs
    THEN [image |-> <<>>, video |-> <<>>, message |-> "No model definition found"]
    ELSE LET model_def == defs[model_type[1]]
             image_prompt == IF Get(model_def, IMAGE_KEY, <<>>) = <<>> THEN <<>>
                             ELSE Get(model_def, IMAGE_KEY, <<>>)
             video_prompt == IF Get(model_def, VIDEO_KEY, <<>>) = <<>> THEN <<>>
                             ELSE Get(model_def, VIDEO_KEY, <<>>)
         IN  [image |-> image_prompt, video |-> video_prompt, message |-> "Editing model"]

\* dict.pop(key, None)
Pop(dict, key) == [k \in DOMAIN dict \ {key} |-> dict[k]]

\* one key of _set_model_prompts and of _persist_prompts: pop on None, else assign
SetOrPop(dict, key, prompt) ==
    IF prompt = <<>> THEN Pop(dict, key) ELSE Put(dict, key, prompt[1])

\* _set_model_prompts(model_def, image_prompt, video_prompt): the definition after it
_set_model_prompts(model_def, image_prompt, video_prompt) ==
    SetOrPop(SetOrPop(model_def, IMAGE_KEY, image_prompt), VIDEO_KEY, video_prompt)

\* _persist_prompts(model_def, image_prompt, video_prompt): the model block the
\* definition file gets
_persist_prompts(model_block, image_prompt, video_prompt) ==
    SetOrPop(SetOrPop(model_block, IMAGE_KEY, image_prompt), VIDEO_KEY, video_prompt)

\* a _set_model_prompts that reports a change whatever it did
changes_applied_always(model_def, image_prompt, video_prompt) == TRUE

\* one key of _set_model_prompts: whether it sets changed = True
KeyChanged(model_def, key, prompt) ==
    IF prompt = <<>> THEN key \in DOMAIN model_def
    ELSE key \notin DOMAIN model_def \/ model_def[key] # prompt[1]

\* changes_applied, the value _set_model_prompts returns
changes_applied(model_def, image_prompt, video_prompt) ==
    \/ KeyChanged(model_def, IMAGE_KEY, image_prompt)
    \/ KeyChanged(SetOrPop(model_def, IMAGE_KEY, image_prompt), VIDEO_KEY, video_prompt)

\* the first line of the status of _apply_prompt_updates
SessionLine(changed) ==
    IF changed THEN "Updated session prompts."
    ELSE "No changes detected for the session prompts."

\* _apply_prompt_updates(state, selected_model_type, image_prompt_text,
\* video_prompt_text, persist); file is what happens to the definition file:
\* "missing", "unreadable", "unwritable" or "ok"
_apply_prompt_updates(selected_model_type, image_prompt_text, video_prompt_text, persist, file) ==
    /\ LET model_type == _resolve_model_type(selected_model_type)
       IN  IF model_type \notin DOMAIN models_def
           THEN /\ call' = Did("_apply_prompt_updates", FALSE, "No model definition found")
                /\ status_parts' = << "No model definition found" >>
                /\ definition_file_ops' = <<>>
                /\ UNCHANGED <<models_def, model_file>>
           ELSE LET image_prompt == _clean_prompt(image_prompt_text)
                    video_prompt == _clean_prompt(video_prompt_text)
                    model_def == _set_model_prompts(models_def[model_type], image_prompt,
                                                    video_prompt)
                    session == SessionLine(changes_applied(models_def[model_type],
                                                           image_prompt, video_prompt))
                IN  /\ models_def' = [models_def EXCEPT ![model_type] = model_def]
                    /\ IF ~persist
                       THEN /\ call' = Did("_apply_prompt_updates", FALSE,
                                           "Changes are in-memory only for this session.")
                            /\ status_parts' =
                                   << session, "Changes are in-memory only for this session." >>
                            /\ definition_file_ops' = <<>>
                            /\ UNCHANGED model_file
                       ELSE IF file = "missing"
                       THEN /\ call' = Did("_apply_prompt_updates", FALSE,
                                           "Cannot save prompts: definition file not found.")
                            /\ status_parts' =
                                   << session, "Cannot save prompts: definition file not found." >>
                            /\ definition_file_ops' = << "isfile" >>
                            /\ UNCHANGED model_file
                       ELSE IF file = "unreadable"
                       THEN /\ call' = Did("_apply_prompt_updates", TRUE,
                                           "Failed to read model file")
                            /\ status_parts' = << session, "Failed to read model file" >>
                            /\ definition_file_ops' = << "isfile", "read" >>
                            /\ UNCHANGED model_file
                       ELSE IF file = "unwritable"
                       THEN /\ call' = Did("_apply_prompt_updates", TRUE,
                                           "Failed to write model file")
                            /\ status_parts' = << session, "Failed to write model file" >>
                            /\ definition_file_ops' = << "isfile", "read", "write" >>
                            /\ UNCHANGED model_file
                       ELSE /\ call' = Did("_apply_prompt_updates", FALSE, "Persisted prompts")
                            /\ status_parts' =
                                   << session, "Persisted prompts",
                                      "Saved changes will be used on next start as well." >>
                            /\ definition_file_ops' = << "isfile", "read", "write" >>
                            /\ model_file' = [model_file EXCEPT ![model_type] =
                                   _persist_prompts(model_file[model_type], image_prompt,
                                                    video_prompt)]
    /\ UNCHANGED <<lora_metadata, db_file, sidecars>>
    /\ UNCHANGED injectVars
    /\ UNCHANGED refreshVars
    /\ UNCHANGED nonLoraVars

(***************************************************************************)
(* The Model Status plugin: ModelAvailabilityAnalyzer.  A value of a model *)
(* definition is a list, a string or something else; an item of a list is *)
(* a string or not.  located gives, for a URL, what locator_func and       *)
(* os.path.exists do with it: "raises", "none" (no path), "absent" (a path *)
(* that does not exist) or "present".                                      *)
(***************************************************************************)
StrItem(text) == [isstr |-> TRUE, text |-> text]

OtherItem == [isstr |-> FALSE, text |-> <<>>]

ListValue(items) == [kind |-> "list", items |-> items]

StrValue(text) == [kind |-> "str", items |-> << StrItem(text) >>]

OtherValue == [kind |-> "other", items |-> <<>>]

\* the keys _extract_urls reads, in its order
UrlKeys == << "URLs", "URLs2", "preload_URLs", "loras" >>

\* the strings of a list: [v for v in value if isinstance(v, str)]
RECURSIVE StrItems(_)
StrItems(items) ==
    IF items = <<>> THEN <<>>
    ELSE (IF Head(items).isstr THEN << Head(items).text >> ELSE <<>>)
             \o StrItems(Tail(items))

\* the loop of _extract_urls over the keys from the i-th on
RECURSIVE ExtractFrom(_, _)
ExtractFrom(source, i) ==
    IF i > Len(UrlKeys) THEN <<>>
    ELSE LET key == UrlKeys[i]
             found == IF key \notin DOMAIN source THEN <<>>
                      ELSE IF source[key].kind = "list" THEN StrItems(source[key].items)
                      ELSE IF source[key].kind = "str" THEN << source[key].items[1].text >>
                      ELSE <<>>
         IN  found \o ExtractFrom(source, i + 1)

\* ModelAvailabilityAnalyzer._extract_urls(model_def)
_extract_urls(model_def) ==
    ExtractFrom(IF "model" \in DOMAIN model_def THEN model_def["model"] ELSE model_def, 1)

\* the path the locator gives for a URL
LocalPath(url) == <<"c", "/">> \o Basename(url)

\* ModelAvailabilityAnalyzer._resolve_local_path(url): <<>> for None
_resolve_local_path(loc, url) ==
    IF loc[url] \in {"raises", "none"} THEN <<>> ELSE << LocalPath(url) >>

\* os.path.exists(local_path), for the path of a URL
PathExists(loc, url) == loc[url] = "present"

\* ModelAvailabilityAnalyzer.describe_files(model_type)
describe_files(defs, loc, model_type) ==
    IF model_type \notin DOMAIN defs THEN <<>>
    ELSE LET urls == _extract_urls(defs[model_type])
         IN  [i \in 1..Len(urls) |->
                 LET local_path == _resolve_local_path(loc, urls[i])
                     exists == IF local_path # <<>> THEN PathExists(loc, urls[i]) ELSE FALSE
                 IN  [filename |-> Basename(urls[i]),
                      status |-> IF exists THEN "downloaded" ELSE "missing",
                      path |-> IF exists THEN local_path ELSE <<>>]]

\* a status that is 'downloaded' as soon as one file is
status_any_downloaded(defs, loc, model_type) ==
    LET details == describe_files(defs, loc, model_type)
    IN  IF details = <<>> THEN "unknown"
        ELSE IF \E i \in 1..Len(details) : details[i].status = "downloaded"
        THEN "downloaded"
        ELSE "missing"

\* ModelAvailabilityAnalyzer.status(model_type)
status_of(defs, loc, model_type) ==
    LET details == describe_files(defs, loc, model_type)
        downloaded == Cardinality({ i \in 1..Len(details) :
                                      details[i].status = "downloaded" })
    IN  IF details = <<>> THEN "unknown"
        ELSE IF downloaded = Len(details) THEN "downloaded"
        ELSE IF downloaded = 0 THEN "missing"
        ELSE "partial"

\* the model types the host may define, in the order sorted() gives them
ModelTypeOrder == << "m", "n" >>

\* the filenames of the details that are not 'downloaded'
RECURSIVE MissingNames(_)
MissingNames(details) ==
    IF details = <<>> THEN <<>>
    ELSE (IF Head(details).status # "downloaded" THEN << Head(details).filename >>
          ELSE <<>>) \o MissingNames(Tail(details))

\* the loop of summary_rows over sorted(self.models_def.keys())
RECURSIVE RowsFrom(_, _, _)
RowsFrom(defs, loc, i) ==
    IF i > Len(ModelTypeOrder) THEN <<>>
    ELSE (IF ModelTypeOrder[i] \in DOMAIN defs
          THEN << [model_type |-> ModelTypeOrder[i],
                   status |-> status_of(defs, loc, ModelTypeOrder[i]),
                   missing_files |->
                       Join(MissingNames(describe_files(defs, loc, ModelTypeOrder[i])),
                            <<",", " ">>)] >>
          ELSE <<>>) \o RowsFrom(defs, loc, i + 1)

\* ModelAvailabilityAnalyzer.summary_rows()
summary_rows(defs, loc) == RowsFrom(defs, loc, 1)

\* rescan(): the button 'Rescan models' and the load of the tab
rescan ==
    /\ table' = summary_rows(analyzer_models_def, located)
    /\ UNCHANGED <<analyzer_models_def, located>>
    /\ UNCHANGED <<substVars, libVars, fileState, loraVars>>

\* outside the plugin: a file is downloaded or removed, or the locator stops
\* or starts finding it
file_changes(url, outcome) ==
    /\ url \in DOMAIN located
    /\ located[url] # outcome
    /\ located' = [located EXCEPT ![url] = outcome]
    /\ UNCHANGED <<analyzer_models_def, table>>
    /\ UNCHANGED <<substVars, libVars, fileState, loraVars>>

\* a new run of the application: __init__ loads the document from the file and
\* _build_ui offers the ids of its collections in the export dropdown
Restart ==
    /\ data' = disk
    /\ exportChoices' = CollectionIds(disk)
    /\ selected_prompt_state' = NoPrompt
    /\ selected_collection' = FAVORITES
    /\ prompt_gallery' = _render_prompt_gallery(data', FAVORITES, <<>>, <<>>)
    /\ op' = Handler("__init__", NoCollection, NoPrompt)
    /\ status' = ""
    /\ storeCall' = NoCall
    /\ UNCHANGED <<disk, now, nextId, exports, settings>>
    /\ UNCHANGED nonLibVars
    /\ FileStateAfter

\* the application run where the store has no file yet (another installation,
\* to which the export files have been copied): an empty store
new_installation ==
    /\ data' = InitialDocument(FAVORITES)
    /\ disk' = data'
    /\ exportChoices' = CollectionIds(data')
    /\ selected_prompt_state' = NoPrompt
    /\ selected_collection' = FAVORITES
    /\ prompt_gallery' = _render_prompt_gallery(data', FAVORITES, <<>>, <<>>)
    /\ op' = Handler("__init__", NoCollection, NoPrompt)
    /\ status' = ""
    /\ storeCall' = NoCall
    /\ UNCHANGED <<now, nextId, exports, settings>>
    /\ UNCHANGED nonLibVars
    /\ FileStateAfter

\* the seconds that may pass before a handler reads the clock
Delays == 0..MaxTime

(***************************************************************************)
(* The state after construction.                                           *)
(***************************************************************************)
InitialSettings ==
    [prompt |-> <<>>, negative_prompt |-> <<>>, steps |-> 1]

LibInit(favoritesName) ==
    /\ data = InitialDocument(favoritesName)
    /\ disk = data
    /\ now = 0
    /\ nextId = 1
    /\ exports = <<>>
    /\ exportChoices = CollectionIds(data)
    /\ selected_prompt_state = NoPrompt
    /\ selected_collection = FAVORITES
    /\ prompt_gallery = _render_prompt_gallery(data, FAVORITES, <<>>, <<>>)
    /\ settings = InitialSettings
    /\ op = Handler("__init__", NoCollection, NoPrompt)
    /\ status = ""
    /\ storeCall = NoCall

LibIdle == LibInit(FAVORITES)

\* no lora_metadata.json yet, one model whose definition has no instructions
LoraIdle ==
    /\ lora_metadata = EmptyDict
    /\ db_file = EmptyDict
    /\ sidecars = EmptyDict
    /\ models_def = [t \in {"m"} |-> EmptyDict]
    /\ model_file = [t \in {"m"} |-> EmptyDict]
    /\ call = Did("__init__", FALSE, "")
    /\ conflict_panel = FALSE
    /\ prompt_choice = [choices |-> <<>>, value |-> <<>>]
    /\ ui_prompt = <<>>
    /\ loras_choices = <<>>
    /\ status_parts = <<>>
    /\ definition_file_ops = <<>>
    /\ refresh_trigger = 0
    /\ batch_totals = <<>>

(***************************************************************************)
(* SpecColl: the collection handlers (create, delete, export, import).     *)
(***************************************************************************)
CollectionNameInputs == { <<" ">>, <<"m">>, <<"M">> } \cup FavoritesNames

\* a prompt id of another installation, never generated by this store
ForeignId == MaxPrompts + 1

ForeignRecord ==
    [id |-> ForeignId, name |-> <<"n">>, prompt |-> <<"a">>, negative_prompt |-> <<>>,
     tags |-> <<>>, settings |-> <<>>, use_count |-> 0, updated_at |-> 0]

ImportFiles ==
    { [kind |-> "none", document |-> MalformedDocument],
      [kind |-> "unreadable", document |-> MalformedDocument],
      [kind |-> "json", document |-> MalformedDocument],
      [kind |-> "json",
       document |-> [id |-> <<"m">>, name |-> <<"M">>, prompts |-> <<ForeignRecord>>]] }

FileOutcomes == {"ok", "error"}

InitColl ==
    /\ \E favoritesName \in FavoritesNames : LibInit(favoritesName)
    /\ SubstIdle
    /\ LoraIdle
    /\ FileIdle
    /\ StatusIdle

NextColl ==
    \/ \E name \in CollectionNameInputs : \E dt \in Delays : _create_new_collection(name, dt)
    \/ \E display \in CollectionNameInputs : _delete_collection(display)
    \/ \E choice \in exportChoices : \E mkdir \in FileOutcomes : \E write \in FileOutcomes :
           _export_collection(choice, mkdir, write)
    \/ \E file \in ImportFiles : \E merge \in BOOLEAN : _import_collection(file, merge)
    \/ Restart

SpecColl == InitColl /\ [][NextColl]_vars

\* SpecDelete: the handlers that add and remove collections
NextDelete ==
    \/ \E name \in CollectionNameInputs : \E dt \in Delays : _create_new_collection(name, dt)
    \/ \E display \in CollectionNameInputs : _delete_collection(display)
    \/ \E file \in ImportFiles : \E merge \in BOOLEAN : _import_collection(file, merge)

SpecDelete == InitColl /\ [][NextDelete]_vars

(***************************************************************************)
(* Claims about the collection handlers, checked under SpecColl (C3, C4)   *)
(* and SpecDelete (C8).                                                    *)
(***************************************************************************)
\* C3: for every existing collection whose id the export dropdown offers,
\* _export_collection obtains that collection's export document, and it reports
\* 'Collection not found' only when no collection with the chosen id exists.
C3_OfferedIdIsExported ==
    (op.name = "_export_collection" /\ HasCollection(data, op.coll)) =>
        /\ status \notin {"Collection not found", "Failed to export collection"}
        /\ status = "Collection exported" =>
               /\ op.coll \in DOMAIN exports
               /\ <<exports[op.coll]>> = export_collection(data, op.coll)

\* C4: _export_collection and _import_collection return a status message for
\* every outcome of the file operations; no exception leaves the handler.
C4_NoHandlerRaises ==
    op.name \in {"_export_collection", "_import_collection"} => status # "raised"

\* C8: deleting the collection "favorites" fails and leaves the document
\* unchanged: whatever display name is selected, _delete_collection never calls
\* the store's delete_collection for "favorites".
C8_FavoritesNeverDeleted ==
    [][ op'.name = "_delete_collection" =>
            /\ storeCall' # Call("delete_collection", FAVORITES, NoPrompt)
            /\ _extract_collection_id(data, op'.coll) = FAVORITES =>
                   /\ data' = data
                   /\ disk' = disk
                   /\ storeCall' = NoCall
                   /\ status' = "Cannot delete Favorites collection"
            /\ HasCollection(data', FAVORITES)
            /\ ~delete_collection_ok(data', FAVORITES) ]_vars

\* the delete handler has refused to delete the reserved collection
C8_Witness ==
    /\ op.name = "_delete_collection"
    /\ status = "Cannot delete Favorites collection"
    /\ Len(data.collections) > 1

\* SpecCreate: only the buttons that create and delete a collection
NextCreate ==
    \/ \E name \in CollectionNameInputs : \E dt \in Delays : _create_new_collection(name, dt)
    \/ \E display \in CollectionNameInputs : _delete_collection(display)

SpecCreate == InitColl /\ [][NextCreate]_vars

\* C28: after any sequence of _create_new_collection and _delete_collection
\* calls every existing collection is reachable from the UI: the display names
\* of distinct collections differ, so _extract_collection_id applied to the
\* display name of a collection returns the id of that very collection.
C28_EveryCollectionReachable ==
    \A i \in 1..Len(data.collections) :
        _extract_collection_id(data, data.collections[i].name) = data.collections[i].id

(***************************************************************************)
(* SpecPrompts: saving, selecting, using and deleting prompts.  The use    *)
(* and delete buttons pass the selected-prompt state to their handlers.    *)
(***************************************************************************)
PromptNameInputs == { <<" ">>, <<"n">> }

PromptInputs == { <<>>, <<"a">>, <<"{", "x", "}">> }

VariableInputs == { <<>>, <<"x", "=", "a">> }

\* the ids a click on a (possibly outdated) gallery card can send
CardIds == 0..MaxPrompts

InitPrompts ==
    /\ LibInit(FAVORITES)
    /\ SubstIdle
    /\ LoraIdle
    /\ FileIdle
    /\ StatusIdle

NextPrompts ==
    \/ \E name \in PromptNameInputs : \E prompt_input \in PromptInputs :
           _save_current_prompt(name, FAVORITES, prompt_input, <<>>, <<>>, TRUE, 0)
    \/ \E prompt_id \in CardIds : _on_prompt_selected(prompt_id)
    \/ \E variables \in VariableInputs :
           _use_prompt_only(selected_prompt_state, variables, 0)
    \/ \E variables \in VariableInputs :
           _use_with_settings(selected_prompt_state, variables, 0)
    \/ _delete_prompt(selected_prompt_state, FAVORITES)

SpecPrompts == InitPrompts /\ [][NextPrompts]_vars

(***************************************************************************)
(* Claims about the prompt handlers, checked under SpecPrompts.            *)
(***************************************************************************)
UseHandlers == {"_use_prompt_only", "_use_with_settings"}

\* C9: a call of _use_prompt_only or _use_with_settings adds exactly 1 to the
\* use_count of the selected record when that record exists, leaving every
\* other use_count and the set of records as they were; when no prompt is
\* selected or the id is not found, the document is unchanged.  record_usage
\* itself adds exactly 1 for a known id and changes nothing for an unknown one.
C9_UseIncrementsByOne ==
    [][ /\ op'.name \in UseHandlers =>
            IF op'.pid # NoPrompt /\ get_prompt(data, op'.pid) # <<>>
            THEN /\ UseCount(data', op'.pid) = UseCount(data, op'.pid) + 1
                 /\ \A id \in PromptIds(data) \ {op'.pid} :
                        UseCount(data', id) = UseCount(data, id)
                 /\ PromptIds(data') = PromptIds(data)
                 /\ Len(AllPrompts(data')) = Len(AllPrompts(data))
            ELSE data' = data /\ disk' = disk
        /\ \A id \in CardIds \cup {ForeignId} :
               IF id \in PromptIds(data)
               THEN UseCount(record_usage(data, id, now), id) = UseCount(data, id) + 1
               ELSE record_usage(data, id, now) = data ]_vars

C9_Witness ==
    /\ op.name \in UseHandlers
    /\ op.pid # NoPrompt
    /\ UseCount(data, op.pid) = 2
    /\ Len(AllPrompts(data)) = 2

(***************************************************************************)
(* SpecUse: saved prompts are loaded into the generator and generations    *)
(* run with the settings as they are, the hook getting those settings.     *)
(***************************************************************************)
NextUse ==
    \/ \E prompt_input \in PromptInputs :
           _save_current_prompt(<<"n">>, FAVORITES, prompt_input, <<>>, <<>>, TRUE, 0)
    \/ \E prompt_id \in CardIds : _on_prompt_selected(prompt_id)
    \/ \E variables \in VariableInputs :
           _use_prompt_only(selected_prompt_state, variables, 0)
    \/ \E variables \in VariableInputs :
           _use_with_settings(selected_prompt_state, variables, 0)
    \/ track_prompt_usage(settings, 0)

SpecUse == InitPrompts /\ [][NextUse]_vars

\* C27: a use of a saved prompt is counted once.  The handler that loads the
\* prompt adds 1 to the record's use_count (C9), so the generation that runs
\* next with the loaded prompt unchanged, and calls track_prompt_usage with it,
\* leaves every use_count as it is.
C27_OneUseCountedOnce ==
    [][ (/\ op.name \in UseHandlers
         /\ status \in {"Loaded prompt", "Loaded prompt with settings"}
         /\ op'.name = "track_prompt_usage")
            => \A id \in PromptIds(data) : UseCount(data', id) = UseCount(data, id) ]_vars

(***************************************************************************)
(* SpecSettings: the generation form changes, prompts are saved with and   *)
(* without their settings, and the two use buttons are pressed.            *)
(***************************************************************************)
\* forms of the main tab: "flow_shift" is a setting that is never saved, and
\* "loras" is absent while no LoRA is chosen
GeneratorForms ==
    { [steps |-> 1, flow_shift |-> 1],
      [steps |-> 2, flow_shift |-> 2, loras |-> <<"z">>] }

\* what the save form holds: a negative prompt and 'save settings' checked, or
\* neither
SaveForms ==
    { [negative_prompt_input |-> <<"g">>, include_settings |-> TRUE],
      [negative_prompt_input |-> <<>>, include_settings |-> FALSE] }

NextSettings ==
    \/ \E form \in GeneratorForms : main_tab_settings_edit(form)
    \/ \E form \in SaveForms :
           _save_current_prompt(<<"n">>, FAVORITES, <<"a">>, form.negative_prompt_input, <<>>,
                                form.include_settings, 0)
    \/ \E prompt_id \in CardIds : _use_prompt_only(prompt_id, <<>>, 0)
    \/ \E prompt_id \in CardIds : _use_with_settings(prompt_id, <<>>, 0)

SpecSettings == InitPrompts /\ [][NextSettings]_vars

\* the keys of the settings whose value differs between before and after
ChangedKeys(before, after) ==
    { k \in DOMAIN before \cap DOMAIN after : before[k] # after[k] }

\* the keys a use of the record prompt_data may change besides the saved ones
PromptKeys(prompt_data) ==
    {"prompt"} \cup (IF prompt_data.negative_prompt # <<>> THEN {"negative_prompt"} ELSE {})

\* C30: _use_with_settings changes in the current settings only 'prompt',
\* 'negative_prompt' (when the record's negative prompt is non-empty) and the
\* keys saved with the record that the current settings already have; it adds
\* no key.  _use_prompt_only changes nothing but 'prompt' and
\* 'negative_prompt'.  The settings saved with a record are a subset of the
\* whitelist plus 'loras', and empty when 'save settings' is unchecked.
C30_UseChangesOnlyItsKeys ==
    [][ /\ op'.name \in UseHandlers =>
               /\ DOMAIN settings' = DOMAIN settings
               /\ status' \notin {"Loaded prompt", "Loaded prompt with settings"} =>
                      settings' = settings
        /\ (op'.name = "_use_with_settings" /\ status' = "Loaded prompt with settings") =>
               LET prompt_data == get_prompt(data, op'.pid)[1]
               IN  ChangedKeys(settings, settings') \subseteq
                       PromptKeys(prompt_data) \cup
                           (DOMAIN prompt_data.settings \cap DOMAIN settings)
        /\ (op'.name = "_use_prompt_only" /\ status' = "Loaded prompt") =>
               ChangedKeys(settings, settings') \subseteq
                   PromptKeys(get_prompt(data, op'.pid)[1])
        /\ \A id \in PromptIds(data') :
               DOMAIN get_prompt(data', id)[1].settings \subseteq SettingsToSave \cup {"loras"}
        /\ (/\ _save_current_prompt(<<"n">>, FAVORITES, <<"a">>, <<>>, <<>>, FALSE, 0)
            /\ status' = "Saved prompt") =>
               DOMAIN get_prompt(data', nextId)[1].settings = {} ]_vars

\* 'Use with Settings' of a record saved with steps and LoRAs, while the form
\* has other steps and no LoRAs: the steps are the saved ones, no "loras"
\* key has appeared and "flow_shift" is what it was
C30_Witness ==
    /\ op.name = "_use_with_settings"
    /\ status = "Loaded prompt with settings"
    /\ "loras" \in DOMAIN get_prompt(data, op.pid)[1].settings
    /\ get_prompt(data, op.pid)[1].settings["steps"] = 2
    /\ "loras" \notin DOMAIN settings
    /\ settings["steps"] = 2
    /\ settings["flow_shift"] = 1
    /\ settings["negative_prompt"] = <<"g">>

\* the ids that were given to a record which the document no longer has
DeletedIds == (1..(nextId - 1)) \ PromptIds(data)

\* C10: once _delete_prompt has deleted a record, get_prompt does not find its
\* id and a second delete_prompt of it fails; the selected-prompt state keeps
\* the id, the id never comes back, and every later Delete, Use Prompt Only or
\* Use with Settings on it reports 'Prompt not found' and leaves the document,
\* the file and the generation settings as they were.
C10_StaleSelectionNotFound ==
    [][ /\ (op'.name = "_delete_prompt" /\ status' = "Deleted prompt") =>
               /\ get_prompt(data', op'.pid) = <<>>
               /\ ~delete_prompt_ok(data', op'.pid)
               /\ selected_prompt_state' = op'.pid
        /\ (op'.name \in UseHandlers \cup {"_delete_prompt"} /\ op'.pid \in DeletedIds) =>
               /\ status' = "Prompt not found"
               /\ data' = data
               /\ disk' = disk
               /\ settings' = settings
        /\ DeletedIds \subseteq DeletedIds' ]_vars

C10_Witness ==
    /\ op.name \in UseHandlers
    /\ op.pid \in DeletedIds
    /\ selected_prompt_state = op.pid
    /\ status = "Prompt not found"
    /\ settings.prompt # <<>>

(***************************************************************************)
(* SpecFav: saving and selecting prompts and the Favorite button.          *)
(***************************************************************************)
NextFav ==
    \/ \E name \in PromptNameInputs : \E prompt_input \in PromptInputs :
           _save_current_prompt(name, FAVORITES, prompt_input, <<>>, <<>>, TRUE, 0)
    \/ \E prompt_id \in CardIds : _on_prompt_selected(prompt_id)
    \/ _toggle_favorite(selected_prompt_state)
    \/ _delete_prompt(selected_prompt_state, FAVORITES)

SpecFav == InitPrompts /\ [][NextFav]_vars

\* the ids that are favourites
FavoriteIds(doc) == { doc.favorites[i] : i \in 1..Len(doc.favorites) }

\* C11: add_to_favorites of an id that is already a favourite fails and the id
\* stays a favourite; remove_from_favorites of an id that is not a favourite
\* fails, and the handler leaves the document as it was whenever its store
\* call fails; a call of _toggle_favorite on a selected id flips the
\* membership of that id and of no other, so that two calls restore it.
C11_ToggleTwiceRestores ==
    [][ /\ \A id \in 1..MaxPrompts :
               /\ add_to_favorites_ok(data, id) =>
                      /\ ~add_to_favorites_ok(add_to_favorites(data, id), id)
                      /\ is_in_favorites(add_to_favorites(data, id), id)
               /\ ~is_in_favorites(data, id) => ~remove_from_favorites_ok(data, id)
               /\ remove_from_favorites_ok(data, id) =>
                      /\ ~is_in_favorites(remove_from_favorites(data, id), id)
                      /\ FavoriteIds(add_to_favorites(remove_from_favorites(data, id), id))
                             = FavoriteIds(data)
        /\ (op'.name = "_toggle_favorite" /\ op'.pid # NoPrompt) =>
               /\ is_in_favorites(data', op'.pid) = ~is_in_favorites(data, op'.pid)
               /\ FavoriteIds(data') \ {op'.pid} = FavoriteIds(data) \ {op'.pid}
               /\ status' = IF is_in_favorites(data, op'.pid)
                             THEN "Removed from favorites" ELSE "Added to favorites"
               /\ AllPrompts(data') = AllPrompts(data)
        /\ (op'.name = "_toggle_favorite"
                /\ status' \notin {"Added to favorites", "Removed from favorites"}) =>
               data' = data ]_vars

\* the Favorite button pressed twice on a record: a favourite added, then removed
C11_Witness ==
    /\ op.name = "_toggle_favorite"
    /\ op.pid \in PromptIds(data)
    /\ status = "Removed from favorites"
    /\ FavoriteIds(data) # {}
    /\ ~is_in_favorites(data, op.pid)

(***************************************************************************)
(* SpecSave: the save form, filled with blank and non-blank names and      *)
(* prompts and with a known and an unknown collection id, while the        *)
(* prompt of the main tab is edited.                                       *)
(***************************************************************************)
SaveNames == { <<>>, <<" ">>, <<"n">>, <<" ", "n">> }

SavePrompts == { <<>>, <<" ">>, <<"a">>, <<" ", "a">> }

SaveCollections == { FAVORITES, <<"u">> }

MainTabPrompts == { <<>>, <<" ">>, <<"b">> }

NextSave ==
    \/ \E name \in SaveNames : \E collection \in SaveCollections :
       \E prompt_input \in SavePrompts :
           _save_current_prompt(name, collection, prompt_input, <<>>, <<>>, TRUE, 0)
    \/ \E text \in MainTabPrompts : main_tab_prompt_edit(text)
    \/ \E prompt_id \in CardIds : _on_prompt_selected(prompt_id)
    \/ _delete_prompt(selected_prompt_state, FAVORITES)

SpecSave == InitPrompts /\ [][NextSave]_vars

\* the messages of a save that did not happen
SaveFailures ==
    {"Please provide a name for the prompt", "No prompt to save", "Failed to save prompt"}

\* C12: a call of _save_current_prompt whose collection id is unknown, or whose
\* name or prompt (the one typed in the form, or the one of the current
\* settings when the form's is empty) is empty after trimming, reports a
\* failure, appends no record and leaves the document and the file as they
\* were; a call that reports success appended exactly one record.
C12_BadSaveChangesNothing ==
    [][ \A name \in SaveNames : \A collection \in SaveCollections :
        \A prompt_input \in SavePrompts :
            LET prompt == IF prompt_input = <<>> THEN Get(settings, "prompt", <<>>)
                          ELSE prompt_input
                bad == \/ ~HasCollection(data, collection)
                       \/ Strip(name) = <<>>
                       \/ Strip(prompt) = <<>>
            IN  _save_current_prompt(name, collection, prompt_input, <<>>, <<>>, TRUE, 0) =>
                    IF bad
                    THEN /\ status' \in SaveFailures
                         /\ data' = data
                         /\ disk' = disk
                         /\ nextId' = nextId
                    ELSE /\ status' = "Saved prompt"
                         /\ Len(AllPrompts(data')) = Len(AllPrompts(data)) + 1 ]_vars

\* a whitespace-only prompt taken from the current settings was refused after a
\* record had been saved
C12_Witness ==
    /\ op.name = "_save_current_prompt"
    /\ op.coll = FAVORITES
    /\ status = "Failed to save prompt"
    /\ settings.prompt = <<" ">>
    /\ Len(AllPrompts(data)) = 1
    /\ disk = data

(***************************************************************************)
(* SpecImport: records are saved and deleted, collections are exported,    *)
(* and the export files are imported again, as they are or as the          *)
(* document of another collection, replacing or merging.                   *)
(***************************************************************************)
\* the collection an export file is turned into before it is imported
OtherCollection == <<"m">>

\* the files that can be chosen for an import: the export files, and each of
\* them with the collection id and name changed to OtherCollection
ExportedFiles(files) ==
    { [kind |-> "json", document |-> files[c]] : c \in DOMAIN files }
        \cup { [kind |-> "json",
                document |-> [files[c] EXCEPT !.id = OtherCollection,
                                              !.name = OtherCollection]] :
                  c \in DOMAIN files }

NextImport ==
    \/ _save_current_prompt(<<"n">>, FAVORITES, <<"a">>, <<>>, <<>>, TRUE, 0)
    \/ \E prompt_id \in CardIds : _on_prompt_selected(prompt_id)
    \/ _delete_prompt(selected_prompt_state, FAVORITES)
    \/ _delete_collection(OtherCollection)
    \/ _export_collection(FAVORITES, "ok", "ok")
    \/ \E file \in ExportedFiles(exports) : \E merge \in BOOLEAN :
           _import_collection(file, merge)

SpecImport == InitPrompts /\ [][NextImport]_vars

RoundTripPrompts == { <<"a">>, <<"b">> }

RoundTripTags == { <<>>, <<"t", ",", "u">> }

NextRoundTrip ==
    \/ \E prompt_input \in RoundTripPrompts : \E tags_str \in RoundTripTags :
           _save_current_prompt(<<"n">>, FAVORITES, prompt_input, <<>>, tags_str, TRUE, 0)
    \/ _export_collection(FAVORITES, "ok", "ok")
    \/ new_installation
    \/ /\ AllPrompts(data) = <<>>
       /\ \E file \in ExportedFiles(exports) : _import_collection(file, FALSE)

SpecRoundTrip == InitPrompts /\ [][NextRoundTrip]_vars

\* name, prompt and tags of the records of a list, one for one
Contents(prompts) ==
    [k \in 1..Len(prompts) |-> <<prompts[k].name, prompts[k].prompt, prompts[k].tags>>]

\* C15: the document _export_collection writes holds the records of the
\* collection one for one, and importing an exported document with
\* merge = false into a store without records yields the collection of the
\* document's id with as many records, the k-th one having the name, prompt
\* and tags of the k-th exported record.
C15_ExportImportRoundTrip ==
    [][ /\ (op'.name = "_export_collection" /\ status' = "Collection exported") =>
               LET c == _extract_collection_id(data, op'.coll)
               IN  /\ c \in DOMAIN exports'
                   /\ Contents(exports'[c].prompts)
                          = Contents(data.collections[CollectionIndex(data, c)].prompts)
        /\ \A file \in ExportedFiles(exports) :
               (_import_collection(file, FALSE) /\ AllPrompts(data) = <<>>) =>
                   /\ status' = "Collection imported successfully"
                   /\ HasCollection(data', file.document.id)
                   /\ Contents(data'.collections[CollectionIndex(data', file.document.id)].prompts)
                          = Contents(file.document.prompts)
                   /\ Len(AllPrompts(data')) = Len(file.document.prompts) ]_vars

\* two records with different prompts, one of them tagged, came back from the
\* export file
C15_Witness ==
    /\ op.name = "_import_collection"
    /\ status = "Collection imported successfully"
    /\ Len(data.collections[1].prompts) = 2
    /\ data.collections[1].prompts[1].prompt # data.collections[1].prompts[2].prompt
    /\ data.collections[1].prompts[1].tags = << <<"t">>, <<"u">> >>
    /\ Contents(data.collections[1].prompts) = Contents(exports[FAVORITES].prompts)

(***************************************************************************)
(* SpecCascade: a second collection is created, records are saved in both  *)
(* collections, and collections are deleted.                               *)
(***************************************************************************)
NextCascade ==
    \/ _create_new_collection(OtherCollection, 0)
    \/ \E collection \in {FAVORITES, OtherCollection} :
       \E prompt_input \in RoundTripPrompts :
           _save_current_prompt(<<"n">>, collection, prompt_input, <<>>, <<>>, TRUE, 0)
    \/ \E prompt_id \in CardIds : _on_prompt_selected(prompt_id)
    \/ \E display \in {FAVORITES, OtherCollection} : _delete_collection(display)

SpecCascade == InitPrompts /\ [][NextCascade]_vars

\* the ids of the records a collection of the document owns
OwnedIds(doc, id) ==
    LET prompts == doc.collections[CollectionIndex(doc, id)].prompts
    IN  { prompts[k].id : k \in 1..Len(prompts) }

\* C16: when _delete_collection has deleted a collection, the collection is not
\* the reserved one, get_prompt finds none of the records it owned, the
\* collection is no longer listed, and every other collection is there with
\* the records it had.
C16_DeleteCollectionCascades ==
    [][ (op'.name = "_delete_collection" /\ status' = "Deleted collection") =>
            LET c == storeCall'.coll
            IN  /\ storeCall'.op = "delete_collection"
                /\ c # FAVORITES
                /\ HasCollection(data, c)
                /\ \A id \in OwnedIds(data, c) : get_prompt(data', id) = <<>>
                /\ ~HasCollection(data', c)
                /\ \A i \in 1..Len(get_collection_names(data')) :
                       get_collection_names(data')[i][2] # c
                /\ \A d \in CollectionIds(data) \ {c} :
                       /\ HasCollection(data', d)
                       /\ data'.collections[CollectionIndex(data', d)]
                              = data.collections[CollectionIndex(data, d)]
                /\ disk' = data' ]_vars

\* a collection was deleted with the one record it owned, the reserved
\* collection kept its record, and the selection still holds the deleted id
C16_Witness ==
    /\ op.name = "_delete_collection"
    /\ status = "Deleted collection"
    /\ nextId = 3
    /\ Len(AllPrompts(data)) = 1
    /\ Len(data.collections[1].prompts) = 1
    /\ selected_prompt_state # NoPrompt
    /\ get_prompt(data, selected_prompt_state) = <<>>

(***************************************************************************)
(* SpecGallery: records with different prompts and tags are saved and the  *)
(* gallery is filtered by the search box and the tag filter.               *)
(***************************************************************************)
GalleryPrompts == { <<"a">>, <<"B">> }

GalleryTagStrings == { <<>>, <<"a">>, <<"a", ",", "b">> }

Searches == { <<>>, <<"A">>, <<"b">>, <<"N">> }

TagFilters ==
    { <<>>, << <<"a">> >>, << <<"a">>, <<"b">> >>, << <<"a">>, <<"c">> >> }

NextGallery ==
    \/ \E prompt_input \in GalleryPrompts : \E tags_str \in GalleryTagStrings :
           _save_current_prompt(<<"n">>, FAVORITES, prompt_input, <<>>, tags_str, TRUE, 0)
    \/ \E search \in Searches : \E tags \in TagFilters :
           _on_search_or_filter_change(FAVORITES, search, tags)
    \/ \E display \in {FAVORITES, OtherCollection} :
           _on_collection_change(display, <<>>, <<>>)

SpecGallery == InitPrompts /\ [][NextGallery]_vars

\* the text, in lower case, occurs in s at some position
OccursIn(text, s) ==
    \E i \in 1..Len(s) : \E j \in i..Len(s) : Lower(SubSeq(s, i, j)) = Lower(text)

\* the ids of the records of the collection that a search text and a list of
\* tags select
Selected(doc, collection_id, search, tags) ==
    LET prompts == doc.collections[CollectionIndex(doc, collection_id)].prompts
    IN  { prompts[k].id : k \in
            { k \in 1..Len(prompts) :
                /\ search # <<>> =>
                       OccursIn(search, prompts[k].name) \/ OccursIn(search, prompts[k].prompt)
                /\ { tags[i] : i \in 1..Len(tags) }
                       \subseteq { prompts[k].tags[i] : i \in 1..Len(prompts[k].tags) } } }

\* C17: get_prompts_in_collection(c, search, tags) returns exactly the records
\* of the collection that contain the search text, whatever the case, in the
\* name or the prompt (when the text is not empty) and carry every tag of the
\* filter (when the filter is not empty), each of them once; and the gallery
\* that _on_search_or_filter_change has rendered shows such an answer.
C17_FiltersSelectExactly ==
    /\ \A search \in Searches : \A tags \in TagFilters :
           LET answer == get_prompts_in_collection(data, FAVORITES, search, tags)
           IN  /\ { answer[k].id : k \in 1..Len(answer) }
                      = Selected(data, FAVORITES, search, tags)
               /\ Len(answer) = Cardinality(Selected(data, FAVORITES, search, tags))
               /\ \A k \in 1..Len(answer) : get_prompt(data, answer[k].id) = <<answer[k]>>
    /\ op.name = "_on_search_or_filter_change" =>
           /\ prompt_gallery.found
           /\ \E search \in Searches : \E tags \in TagFilters :
                  prompt_gallery =
                      _render_prompt_gallery(data, FAVORITES, search, tags)
           /\ \E search \in Searches : \E tags \in TagFilters :
                  { prompt_gallery.cards[k] : k \in 1..Len(prompt_gallery.cards) }
                      = Selected(data, FAVORITES, search, tags)

\* of two records with the same name and prompt, the one tagged a and b is in
\* the filtered gallery and the one tagged a is not
C17_Witness ==
    /\ op.name = "_on_search_or_filter_change"
    /\ Len(AllPrompts(data)) = 2
    /\ AllPrompts(data)[1].tags = << <<"a">> >>
    /\ AllPrompts(data)[2].tags = << <<"a">>, <<"b">> >>
    /\ AllPrompts(data)[1].prompt = AllPrompts(data)[2].prompt
    /\ prompt_gallery.cards = << AllPrompts(data)[2].id >>

(***************************************************************************)
(* SpecOrder: records are saved and used while the clock advances, and     *)
(* the gallery is rendered.                                                *)
(***************************************************************************)
NextOrder ==
    \/ \E dt \in Delays :
           _save_current_prompt(<<"n">>, FAVORITES, <<"a">>, <<>>, <<>>, TRUE, dt)
    \/ \E prompt_id \in CardIds : _on_prompt_selected(prompt_id)
    \/ \E dt \in Delays : _use_prompt_only(selected_prompt_state, <<>>, dt)
    \/ _on_search_or_filter_change(FAVORITES, <<>>, <<>>)

SpecOrder == InitPrompts /\ [][NextOrder]_vars

\* the place of a record in the list of its collection
Place(prompts, id) == CHOOSE k \in 1..Len(prompts) : prompts[k].id = id

\* C18: the records get_prompts_in_collection returns are the records of the
\* collection, a record updated later before a record updated earlier and
\* records updated at the same time in the order they were added; so the
\* record whose usage a use handler has just recorded comes before every
\* record updated earlier, and the gallery is rendered in that order.
C18_MostRecentlyUpdatedFirst ==
    LET prompts == data.collections[CollectionIndex(data, FAVORITES)].prompts
        answer == get_prompts_in_collection(data, FAVORITES, <<>>, <<>>)
    IN  /\ Len(answer) = Len(prompts)
        /\ { answer[k] : k \in 1..Len(answer) } = { prompts[k] : k \in 1..Len(prompts) }
        /\ \A i \in 1..Len(answer) : \A j \in (i + 1)..Len(answer) :
               \/ answer[i].updated_at > answer[j].updated_at
               \/ /\ answer[i].updated_at = answer[j].updated_at
                  /\ Place(prompts, answer[i].id) < Place(prompts, answer[j].id)
        /\ (op.name \in UseHandlers /\ status \in SuccessStatuses) =>
               \A k \in 1..Len(prompts) :
                   prompts[k].updated_at < now =>
                       Place(answer, op.pid) < Place(answer, prompts[k].id)
        /\ op.name = "_on_search_or_filter_change" =>
               prompt_gallery.cards = [k \in 1..Len(answer) |-> answer[k].id]

\* the record added second was used later than the first was updated, and is
\* returned first
C18_Witness ==
    /\ op.name \in UseHandlers
    /\ status \in SuccessStatuses
    /\ Len(AllPrompts(data)) = 2
    /\ op.pid = AllPrompts(data)[2].id
    /\ AllPrompts(data)[1].updated_at < AllPrompts(data)[2].updated_at
    /\ get_prompts_in_collection(data, FAVORITES, <<>>, <<>>)[1].id = op.pid

(***************************************************************************)
(* SpecTabs: the store's mutations through the save and delete handlers    *)
(* and the usage hook, with the tab being selected and deselected.         *)
(* SpecExt adds another writer of the store's file.                        *)
(***************************************************************************)
\* the settings of a finished generation, as the hook gets them
HookConfigs == { EmptyDict, [prompt |-> <<"a">>] }

\* the collection another writer adds to the file
ExternalId == <<"e">>

ExternalCollection ==
    [id |-> ExternalId, name |-> ExternalId, prompts |-> << ForeignRecord >>]

\* the documents another writer may leave in the file
ExternalDocuments(file) ==
    { InitialDocument(FAVORITES),
      IF HasCollection(file, ExternalId) THEN file
      ELSE [file EXCEPT !.collections = Append(@, ExternalCollection)] }

\* another program (or a hand edit) rewrites the store's file
ExternalEdit ==
    /\ \E document \in ExternalDocuments(disk) : disk' = document
    /\ op' = Handler("external edit", NoCollection, NoPrompt)
    /\ storeCall' = NoCall
    /\ UNCHANGED <<data, now, nextId, exports, exportChoices, prompt_gallery,
                   selected_prompt_state, selected_collection, settings, status>>
    /\ UNCHANGED nonLibVars
    /\ FileStateAfter

NextTabs ==
    \/ _save_current_prompt(<<"n">>, FAVORITES, <<"a">>, <<>>, <<>>, FALSE, 0)
    \/ \E prompt_id \in CardIds : _on_prompt_selected(prompt_id)
    \/ _delete_prompt(selected_prompt_state, FAVORITES)
    \/ \E configs \in HookConfigs : track_prompt_usage(configs, 0)
    \/ on_tab_select
    \/ on_tab_deselect

InitTabs ==
    /\ LibInit(FAVORITES)
    /\ SubstIdle
    /\ LoraIdle
    /\ FileIdle
    /\ StatusIdle

SpecTabs == InitTabs /\ [][NextTabs]_vars

NextExt == NextTabs \/ ExternalEdit

SpecExt == InitTabs /\ [][NextExt]_vars

C7_LastWriterWins ==
    [][ /\ op'.name = "on_tab_select" => (data' = disk /\ disk' = disk)
        /\ op'.name = "on_tab_deselect" => (disk' = data /\ data' = data)
        /\ StoreWrote => disk' = data'
        /\ op'.name # "on_tab_select" =>
               (HasCollection(data', ExternalId) => HasCollection(data, ExternalId))
        /\ fileState' # "external" => disk' = data' ]_vars

C7_Witness ==
    /\ fileState = "overwritten"
    /\ op.name = "on_tab_deselect"
    /\ disk = data
    /\ ~HasCollection(disk, ExternalId)
    /\ AllPrompts(disk) # <<>>

(***************************************************************************)
(* SpecLora: the LoRA Manager's metadata operations and the System Prompt  *)
(* Manager's apply, with file writes and fetches that may fail.            *)
(***************************************************************************)
LoraKeys == { <<>>, <<"d", "\\", "k">> }

StoredKeys == { <<"d", "/", "k">> }

LoraPrompts == { <<>>, <<"p">> }

TrainedWords == { <<>>, << <<"t">>, <<"u">> >> }

ModelTypeInputs == { <<>>, << "m" >>, << "z" >> }

PromptTexts == { <<>>, << <<" ">> >>, << <<"i">> >> }

DefinitionFileOutcomes == {"missing", "unreadable", "unwritable", "ok"}

InitLora ==
    /\ LoraIdle
    /\ LibIdle
    /\ SubstIdle
    /\ FileIdle
    /\ StatusIdle

NextLora ==
    \/ \E key \in LoraKeys : \E prompt \in LoraPrompts : \E write \in FileOutcomes :
           save_metadata(key, prompt, write)
    \/ \E key \in StoredKeys : \E fetch \in FileOutcomes : \E fetched \in TrainedWords :
       \E sidecarWrite \in FileOutcomes : \E dbWrite \in FileOutcomes :
           _fetch_and_process_single_lora(key, fetch, fetched, sidecarWrite, dbWrite)
    \/ \E read \in FileOutcomes : load_json_db(read)
    \/ \E image_prompt_text \in PromptTexts : \E persist \in BOOLEAN :
       \E file \in DefinitionFileOutcomes :
           _apply_prompt_updates(<<"m">>, image_prompt_text, <<>>, persist, file)

SpecLora == InitLora /\ [][NextLora]_vars

\* C5: whenever a file write or a fetch fails inside save_metadata,
\* _fetch_and_process_single_lora or _apply_prompt_updates, the failure is
\* reported as a message and lora_metadata and models_def are what they were
\* before the call.
C5_FailureLeavesMemoryUnchanged ==
    [][ call'.failed =>
            /\ call'.message # ""
            /\ lora_metadata' = lora_metadata
            /\ models_def' = models_def ]_vars

(***************************************************************************)
(* SpecInject: prompts are stored for LoRAs and a selection of LoRAs is    *)
(* sent to the generator.                                                  *)
(***************************************************************************)
\* the items of the LoRA list: with a directory, a bare file name that
\* os.walk finds in d, and a bare file name it does not find
InjectItems == { <<"d", "/", "k">>, <<"j">>, <<"x">> }

InjectKeys == { <<"d", "\\", "k">>, <<"d", "/", "j">> }

InjectModes == {"Overwrite", "Append"}

\* the selections: lists of different items
Selections ==
    { sel \in SeqsUpTo(InjectItems, MaxSelected) :
        \A i \in 1..Len(sel) : \A j \in 1..Len(sel) : i # j => sel[i] # sel[j] }

NextInject ==
    \/ \E key \in InjectKeys : \E prompt \in LoraPrompts : save_metadata(key, prompt, "ok")
    \/ \E selected_loras \in Selections : \E prompt_mode \in InjectModes :
       \E lora_mode \in InjectModes :
           prepare_injection(selected_loras, prompt_mode, lora_mode)
    \/ reset_conflict_panel

SpecInject == InitLora /\ [][NextInject]_vars

\* the selected LoRAs that have a non-empty stored prompt
WithStoredPrompt(selected_loras) ==
    { i \in 1..Len(selected_loras) :
        Get(Get(lora_metadata, resolve_path(selected_loras[i]), EmptyDict), "prompt", <<>>)
            # <<>> }

\* C19: prepare_injection shows the conflict panel only when at least two of
\* the selected LoRAs have a non-empty stored prompt; for every other
\* selection that is not empty it injects and leaves the panel hidden.
C19_PanelOnlyForMultiplePrompts ==
    [][ \A selected_loras \in Selections : \A prompt_mode \in InjectModes :
        \A lora_mode \in InjectModes :
            prepare_injection(selected_loras, prompt_mode, lora_mode) =>
                /\ conflict_panel' => Cardinality(WithStoredPrompt(selected_loras)) >= 2
                /\ (selected_loras # <<>>
                        /\ Cardinality(WithStoredPrompt(selected_loras)) < 2) =>
                       /\ ~conflict_panel'
                       /\ call'.message = "Injected LoRAs" ]_vars

(***************************************************************************)
(* SpecAppend: the generator already holds a prompt and LoRAs when a       *)
(* selection is sent to it, directly and through the conflict panel.       *)
(***************************************************************************)
GeneratorPrompts == { <<>>, <<"a">> }

GeneratorLoras == { <<>>, << <<"z">> >>, << <<"k">>, <<"z">> >> }

AppendItems == { <<"d", "/", "k">>, <<"j">> }

AppendSelections ==
    { sel \in SeqsUpTo(AppendItems, MaxSelected) :
        \A i \in 1..Len(sel) : \A j \in 1..Len(sel) : i # j => sel[i] # sel[j] }

NextAppend ==
    \/ \E key \in InjectKeys : save_metadata(key, <<"p">>, "ok")
    \/ \E prompt \in GeneratorPrompts : \E loras \in GeneratorLoras :
           generator_edit(prompt, loras)
    \/ \E selected_loras \in AppendSelections : \E prompt_mode \in InjectModes :
       \E lora_mode \in InjectModes :
           prepare_injection(selected_loras, prompt_mode, lora_mode)
    \/ \E selected_loras \in AppendSelections : \E prompt_mode \in InjectModes :
       \E lora_mode \in InjectModes :
       \E prompt_choice_value \in { <<>>, <<"p">>, <<"p", ",", " ", "p">> } :
           finalize_injection(selected_loras, prompt_choice_value, prompt_mode, lora_mode)
    \/ reset_conflict_panel

SpecAppend == InitLora /\ [][NextAppend]_vars

\* s begins with prefix
IsPrefix(prefix, s) == Len(prefix) <= Len(s) /\ SubSeq(s, 1, Len(prefix)) = prefix

\* every LoRA of the list before is in the list after
KeepsLoras(before, after) ==
    \A i \in 1..Len(before) : \E j \in 1..Len(after) : after[j] = before[i]

\* what the modes 'Append' promise of an injection
AppendKeeps(prompt_mode, lora_mode) ==
    /\ prompt_mode = "Append" => IsPrefix(ui_prompt, ui_prompt')
    /\ lora_mode = "Append" => KeepsLoras(loras_choices, loras_choices')

\* C24: when 'Send to Generator' injects, directly or through the Confirm of
\* the conflict panel, Prompt Mode 'Append' keeps the generator's prompt as a
\* prefix of the new prompt and LoRA List Mode 'Append' keeps every LoRA the
\* generator's list held, for every selection.
C24_AppendKeepsWhatWasThere ==
    [][ \A selected_loras \in AppendSelections : \A prompt_mode \in InjectModes :
        \A lora_mode \in InjectModes :
            /\ (prepare_injection(selected_loras, prompt_mode, lora_mode)
                    /\ call'.message = "Injected LoRAs")
                   => AppendKeeps(prompt_mode, lora_mode)
            /\ \A prompt_choice_value \in { <<>>, <<"p">>, <<"p", ",", " ", "p">> } :
                   finalize_injection(selected_loras, prompt_choice_value, prompt_mode,
                                      lora_mode)
                       => AppendKeeps(prompt_mode, lora_mode) ]_vars

(***************************************************************************)
(* SpecFetch: prompts are stored for LoRAs and metadata is fetched for     *)
(* them, with every outcome of the fetch and of the two file writes.       *)
(***************************************************************************)
FetchKeys == { <<"d", "/", "k">>, <<"f">> }

NextFetch ==
    \/ \E key \in FetchKeys : \E prompt \in LoraPrompts : \E write \in FileOutcomes :
           save_metadata(key, prompt, write)
    \/ \E key \in FetchKeys : \E fetch \in FileOutcomes : \E fetched \in TrainedWords :
       \E sidecarWrite \in FileOutcomes : \E dbWrite \in FileOutcomes :
           _fetch_and_process_single_lora(key, fetch, fetched, sidecarWrite, dbWrite)

SpecFetch == InitLora /\ [][NextFetch]_vars

\* the prompt stored under key, "" when there is none
StoredPrompt(metadata, key) == Get(Get(metadata, key, EmptyDict), "prompt", <<>>)

\* C29: _fetch_and_process_single_lora never overwrites a stored default
\* prompt: when the key has a non-empty prompt, lora_metadata is the same after
\* the call whatever the fetch returns; the entries of the other keys are
\* always unchanged; the prompt changes only from empty to the joined trigger
\* words of a successful fetch; and a failed fetch changes neither
\* lora_metadata nor the DB file nor the sidecar files.
C29_StoredPromptIsKept ==
    [][ \A key \in FetchKeys : \A fetch \in FileOutcomes : \A fetched \in TrainedWords :
        \A sidecarWrite \in FileOutcomes : \A dbWrite \in FileOutcomes :
            _fetch_and_process_single_lora(key, fetch, fetched, sidecarWrite, dbWrite) =>
                /\ StoredPrompt(lora_metadata, key) # <<>> => lora_metadata' = lora_metadata
                /\ \A k \in FetchKeys \ {key} :
                       Get(lora_metadata', k, <<"absent">>) = Get(lora_metadata, k, <<"absent">>)
                /\ StoredPrompt(lora_metadata', key) # StoredPrompt(lora_metadata, key) =>
                       /\ StoredPrompt(lora_metadata, key) = <<>>
                       /\ fetch = "ok"
                       /\ StoredPrompt(lora_metadata', key) = Join(fetched, <<",", " ">>)
                /\ fetch = "error" =>
                       /\ lora_metadata' = lora_metadata
                       /\ db_file' = db_file
                       /\ sidecars' = sidecars ]_vars

\* a fetch that returned trigger words has left the stored prompt "p" alone
C29_Witness ==
    /\ call.name = "_fetch_and_process_single_lora"
    /\ call.message = "Metadata updated."
    /\ \E key \in FetchKeys :
           /\ StoredPrompt(lora_metadata, key) = <<"p">>
           /\ Get(sidecars, NormPath(key), <<>>) # <<>>

(***************************************************************************)
(* SpecUpdate: metadata is fetched for single cards and for the list of a  *)
(* category, and prompts are saved from the cards.                         *)
(***************************************************************************)
\* a category and files of its list, as update_list_by_category names them
BatchLists ==
    { << ALL_LORAS, <<>> >>,
      << ALL_LORAS, << <<"f">> >> >>,
      << ALL_LORAS, << <<"d", "/", "k">>, <<"f">> >> >>,
      << <<"d">>, << <<"k">> >> >> }

\* what happens with one file of a batch: it is gone, its fetch fails, its
\* sidecar cannot be written, or it is fetched with or without trigger words
BatchOutcomes ==
    { [exists |-> FALSE, fetch |-> "ok", fetched |-> <<>>, sidecarWrite |-> "ok",
       dbWrite |-> "ok"],
      [exists |-> TRUE, fetch |-> "error", fetched |-> <<>>, sidecarWrite |-> "ok",
       dbWrite |-> "ok"],
      [exists |-> TRUE, fetch |-> "ok", fetched |-> <<>>, sidecarWrite |-> "error",
       dbWrite |-> "ok"],
      [exists |-> TRUE, fetch |-> "ok", fetched |-> << <<"t">>, <<"u">> >>,
       sidecarWrite |-> "ok", dbWrite |-> "ok"] }

\* the items whose cards are rendered
CardItems == { <<"f">>, <<"k">> }

NextUpdate ==
    \/ \E list \in BatchLists : \E outcomes \in [1..Len(list[2]) -> BatchOutcomes] :
           batch_update_metadata(list[1], list[2], outcomes)
    \/ \E lora_name \in CardItems : \E fetch \in FileOutcomes : \E fetched \in TrainedWords :
           perform_update(lora_name, fetch, fetched, "ok", "ok")
    \/ \E lora_name \in CardItems : \E fetch \in FileOutcomes : \E fetched \in TrainedWords :
           perform_manual_fetch(lora_name, fetch, fetched, "ok", "ok")
    \/ \E lora_name \in CardItems : \E prompt \in LoraPrompts :
           save_metadata(resolve_path(lora_name), prompt, "ok")

SpecUpdate == InitLora /\ [][NextUpdate]_vars

\* C23: when batch_update_metadata has gone through a list of files, the
\* 'Updated' count and the 'Failed/Skipped' count it reports add up to the
\* number of files of the list.
C23_EveryFileCounted ==
    batch_totals # <<>> =>
        batch_totals[1].updated + batch_totals[1].failed = batch_totals[1].files

\* the handlers that update the metadata of LoRAs and return a value for
\* refresh_trigger
MetadataUpdates == {"perform_update", "perform_manual_fetch", "batch_update_metadata"}

\* C25: every 'Update Info', 'Fetch Info from CivitAI' and 'Update All
\* (Visible)' that has gone through its files leaves in refresh_trigger a value
\* that differs from the one it held before, so that refresh_trigger.change
\* fires.
C25_UpdateChangesTrigger ==
    [][ (call'.name \in MetadataUpdates /\ call'.message # "No files to update.") =>
            refresh_trigger' # refresh_trigger ]_vars

\* the categories of the dropdown: 'All LoRAs' and the folders of the root
Categories == { ALL_LORAS, <<"d">> }

\* the prompt stored in lora_metadata under a key, '' when there is none
PromptUnder(key) == Get(Get(lora_metadata, key, EmptyDict), "prompt", <<>>)

\* C26: for every file of the LoRA root, as every category lists it, the key
\* under which batch_update_metadata stores its default prompt and the key
\* resolve_path gives for its card, its saved prompt and its injection are the
\* same key: the prompt stored under the one is the prompt found under the
\* other.
C26_SameKeyOnEveryPath ==
    \A category \in Categories : \A item_name \in update_list_by_category(category) :
        PromptUnder(BatchKey(category, item_name)) = PromptUnder(resolve_path(item_name))

(***************************************************************************)
(* SpecSys: the two system-prompt fields are applied, with and without     *)
(* saving, as None, empty, blank, plain and padded texts.                  *)
(***************************************************************************)
SysPromptTexts ==
    { <<>>, << <<>> >>, << <<" ">> >>, << <<"i">> >>, << <<" ", "i", " ">> >>,
      << <<"v">> >> }

NextSys ==
    \E selected_model_type \in ModelTypeInputs : \E image_prompt_text \in SysPromptTexts :
    \E video_prompt_text \in SysPromptTexts : \E persist \in BOOLEAN :
    \E file \in {"ok", "unwritable"} :
        _apply_prompt_updates(selected_model_type, image_prompt_text,
                              video_prompt_text, persist, file)

SpecSys == InitLora /\ [][NextSys]_vars

\* a field's text is None, empty or made of whitespace only
IsBlank(prompt_text) ==
    prompt_text = <<>> \/ \A i \in 1..Len(prompt_text[1]) : IsSpace(prompt_text[1][i])

\* what the claim says of one field: its key in the definition and what
\* _get_model_prompts returns for it
FieldFollows(model_def, key, prompt_text, returned) ==
    IF IsBlank(prompt_text)
    THEN key \notin DOMAIN model_def /\ returned = <<>>
    ELSE /\ key \in DOMAIN model_def
         /\ model_def[key] = Strip(prompt_text[1])
         /\ model_def[key] # <<>>
         /\ returned = Strip(prompt_text[1])

\* C20: after _apply_prompt_updates on an existing model, for the image field
\* and for the video field, a None, empty or whitespace-only text leaves the
\* field's key absent from the model definition and _get_model_prompts
\* returns '' for it, and any other text is stored stripped and returned by
\* _get_model_prompts.
C20_BlankFieldFallsBack ==
    [][ call'.name = "_apply_prompt_updates" =>
            LET model_type == _resolve_model_type(<<>>)
                returned == _get_model_prompts(models_def', <<model_type>>)
                Applied(image, video) ==
                    models_def'[model_type] =
                        _set_model_prompts(models_def[model_type], _clean_prompt(image),
                                           _clean_prompt(video))
            IN  /\ \E image \in SysPromptTexts : \E video \in SysPromptTexts :
                       Applied(image, video)
                /\ \A image \in SysPromptTexts : \A video \in SysPromptTexts :
                       Applied(image, video) =>
                           /\ FieldFollows(models_def'[model_type], IMAGE_KEY, image,
                                           returned.image)
                           /\ FieldFollows(models_def'[model_type], VIDEO_KEY, video,
                                           returned.video)
                /\ returned.message = "Editing model" ]_vars

\* the image field was applied with a text and the video field left blank,
\* the change being saved to the model file
C20_Witness ==
    /\ call.name = "_apply_prompt_updates"
    /\ call.message = "Persisted prompts"
    /\ Get(models_def["m"], IMAGE_KEY, <<>>) = <<"i">>
    /\ VIDEO_KEY \notin DOMAIN models_def["m"]
    /\ _get_model_prompts(models_def, <<"m">>).image = <<"i">>
    /\ _get_model_prompts(models_def, <<"m">>).video = <<>>

(***************************************************************************)
(* SpecSession: the fields are applied for the session and saved, the      *)
(* same values being applied again and again.                              *)
(***************************************************************************)
SessionTexts == { <<>>, << <<" ">> >>, << <<" ", "i", " ">> >>, << <<"v">> >> }

NextSession ==
    \E selected_model_type \in { <<>>, << "m" >> } : \E image_prompt_text \in SessionTexts :
    \E video_prompt_text \in SessionTexts : \E persist \in BOOLEAN :
        _apply_prompt_updates(selected_model_type, image_prompt_text,
                              video_prompt_text, persist, "ok")

SpecSession == InitLora /\ [][NextSession]_vars

\* the first line of the status that _apply_prompt_updates returns for these
\* fields when the definition of the model is model_def
FirstLine(model_def, image_prompt_text, video_prompt_text) ==
    SessionLine(changes_applied(model_def, _clean_prompt(image_prompt_text),
                                _clean_prompt(video_prompt_text)))

\* C21: _apply_prompt_updates with persist = False does nothing with the model
\* definition file and leaves its content as it is; its status begins with
\* 'Updated session prompts.' when the in-memory model definitions changed and
\* with 'No changes detected for the session prompts.' when they did not; and
\* called again with the same arguments right after, it reports 'No changes
\* detected for the session prompts.'.
C21_SessionOnlyStaysInMemory ==
    [][ \A selected_model_type \in { <<>>, << "m" >> } :
        \A image_prompt_text \in SessionTexts : \A video_prompt_text \in SessionTexts :
            _apply_prompt_updates(selected_model_type, image_prompt_text,
                                  video_prompt_text, FALSE, "ok") =>
                /\ definition_file_ops' = <<>>
                /\ model_file' = model_file
                /\ status_parts' = << SessionLine(models_def' # models_def),
                                      "Changes are in-memory only for this session." >>
                /\ FirstLine(models_def'[_resolve_model_type(selected_model_type)],
                             image_prompt_text, video_prompt_text)
                       = "No changes detected for the session prompts." ]_vars

\* a session-only apply changed the definition, which holds instructions that
\* the model file, saved before, does not hold
C21_Witness ==
    /\ call.message = "Changes are in-memory only for this session."
    /\ status_parts[1] = "Updated session prompts."
    /\ Get(models_def["m"], IMAGE_KEY, <<>>) = <<"i">>
    /\ Get(model_file["m"], IMAGE_KEY, <<>>) = <<"v">>

(***************************************************************************)
(* SpecStatus: the overview is scanned while files come and go, for model  *)
(* definitions that are flat or wrapped, with lists, single strings and    *)
(* other values under the URL keys.                                        *)
(***************************************************************************)
StatusUrls == { <<"h", "/", "a">>, <<"b">>, <<"c">> }

LocatorOutcomes == {"raises", "none", "absent", "present"}

\* the models_def the analyzer is built with
StatusDefinitions ==
    { EmptyDict,
      [m |-> [URLs |-> ListValue(<< StrItem(<<"h", "/", "a">>), StrItem(<<"b">>) >>)]],
      [m |-> [URLs |-> ListValue(<<>>), name |-> OtherValue]],
      [m |-> [model |-> [URLs |-> StrValue(<<"h", "/", "a">>),
                         loras |-> ListValue(<< OtherItem, StrItem(<<"c">>) >>)],
              URLs |-> StrValue(<<"b">>)]],
      [m |-> [URLs2 |-> OtherValue, preload_URLs |-> ListValue(<< StrItem(<<"c">>) >>)],
       n |-> [URLs |-> StrValue(<<"b">>), URLs2 |-> ListValue(<< StrItem(<<"b">>),
                                                               StrItem(<<"c">>) >>)]] }

InitStatus ==
    /\ analyzer_models_def \in StatusDefinitions
    /\ located = [url \in StatusUrls |-> "none"]
    /\ table = <<>>
    /\ SubstIdle
    /\ LibIdle
    /\ LoraIdle
    /\ FileIdle

NextStatus ==
    \/ rescan
    \/ \E url \in StatusUrls : \E outcome \in LocatorOutcomes : file_changes(url, outcome)

SpecStatus == InitStatus /\ [][NextStatus]_vars

\* the files a model type references, none when it is not defined
Referenced(model_type) ==
    IF model_type \in DOMAIN analyzer_models_def
    THEN _extract_urls(analyzer_models_def[model_type])
    ELSE <<>>

\* the referenced files that exist locally, and those that do not
Local(model_type) ==
    { i \in 1..Len(Referenced(model_type)) : located[Referenced(model_type)[i]] = "present" }

NotLocal(model_type) ==
    SelectSeq(Referenced(model_type), LAMBDA url : located[url] # "present")

\* the status of every model type is the one the four cases give
StatusAsSpecified ==
    \A model_type \in {"m", "n", "z"} :
        LET n == Len(Referenced(model_type))
            have == Cardinality(Local(model_type))
            st == status_of(analyzer_models_def, located, model_type)
        IN  /\ st = "unknown" <=> n = 0
            /\ st = "downloaded" <=> (n >= 1 /\ have = n)
            /\ st = "missing" <=> (n >= 1 /\ have = 0)
            /\ st = "partial" <=> (n >= 1 /\ 0 < have /\ have < n)

\* rows has one row for each defined model type, with its status and the
\* names of its referenced files that are not local
RowsAsSpecified(rows) ==
    /\ { rows[i].model_type : i \in 1..Len(rows) } = DOMAIN analyzer_models_def
    /\ Len(rows) = Cardinality(DOMAIN analyzer_models_def)
    /\ \A i \in 1..Len(rows) :
           LET missing == NotLocal(rows[i].model_type)
           IN  /\ rows[i].status
                      = status_of(analyzer_models_def, located, rows[i].model_type)
               /\ rows[i].missing_files
                      = Join([j \in 1..Len(missing) |-> Basename(missing[j])], <<",", " ">>)

\* C22: status(model_type) is 'unknown' iff the type is undefined or references
\* no file, 'downloaded' iff it references a file and all its files exist
\* locally, 'missing' iff it references a file and none exists, 'partial'
\* otherwise, a file whose locator raises or returns nothing being a missing
\* one; and the rows summary_rows returns list as missing_files exactly the
\* referenced files that are not downloaded.
C22_StatusFollowsFiles ==
    /\ StatusAsSpecified
    /\ RowsAsSpecified(summary_rows(analyzer_models_def, located))

\* the overview was scanned when a type had one file present and one file
\* whose locator raises: its row is 'partial' and names the second file
C22_Witness ==
    /\ table = summary_rows(analyzer_models_def, located)
    /\ Len(table) = 1
    /\ table[1].status = "partial"
    /\ table[1].missing_files = <<"c">>
    /\ located[<<"c">>] = "raises"
    /\ located[<<"h", "/", "a">>] = "present"

(***************************************************************************)
(* The inputs of the substitution check: templates built from placeholder  *)
(* and text pieces, variable strings built from comma-separated items.     *)
(***************************************************************************)
TemplatePieces ==
    { <<"{", "x", "}">>, <<"{", "y", "}">>, <<"{", "}">>, <<"a">>, <<" ">> }

Templates == { Concat(ps) : ps \in SeqsUpTo(TemplatePieces, MaxPieces) }

VarItems ==
    { <<"x", "=", "a">>, <<"x", "=", "b">>, <<"y", "=", "b">>, <<"x", "=">>,
      <<" ", "x", " ", "=", " ", "a", " ">>,
      <<"x", "=", "{", "y", "}">>, <<"x", "=", "{", "}">>,
      <<"=", "a">>, <<"x">>, <<" ">>, <<>> }

VarStrings == { Join(items, <<",">>) : items \in SeqsUpTo(VarItems, MaxPairs) }

InitSubst ==
    /\ tmpl \in Templates
    /\ varstr \in VarStrings
    /\ result = <<>>
    /\ pc = "call"
    /\ LibIdle
    /\ LoraIdle
    /\ FileIdle
    /\ StatusIdle

\* one call of _substitute_variables on the chosen inputs
CallSubstitute ==
    /\ pc = "call"
    /\ result' = _substitute_variables(tmpl, varstr)
    /\ pc' = "done"
    /\ UNCHANGED <<tmpl, varstr>>
    /\ UNCHANGED <<libVars, loraVars, fileState, statusVars>>

NextSubst == CallSubstitute

SpecSubst == InitSubst /\ [][NextSubst]_vars

(***************************************************************************)
(* Claims about _substitute_variables, checked under SpecSubst.            *)
(***************************************************************************)
\* whether some key's placeholder starts the string s
KeyMatchesAt(s, variables) ==
    \E i \in 1..Len(variables) : MatchesAt(s, 1, Placeholder(variables[i][1]))

\* The template with every placeholder of a supplied key replaced by its value,
\* all keys at once: the text a value brings in is not looked at again.
RECURSIVE SimultaneousSubstitution(_, _)
SimultaneousSubstitution(s, variables) ==
    IF s = <<>> THEN <<>>
    ELSE IF KeyMatchesAt(s, variables)
         THEN LET i == CHOOSE j \in 1..Len(variables) :
                           MatchesAt(s, 1, Placeholder(variables[j][1]))
                  key == variables[i][1]
              IN  variables[i][2]
                    \o SimultaneousSubstitution(SubSeq(s, Len(key) + 3, Len(s)), variables)
         ELSE <<Head(s)>> \o SimultaneousSubstitution(Tail(s), variables)

\* C1: _substitute_variables returns the template with every {key} of a supplied
\* key replaced by its value, all keys as if simultaneously, and every other
\* placeholder left as it is.
C1_SubstitutesSimultaneously ==
    pc = "done" => result = SimultaneousSubstitution(tmpl, ParseVariables(varstr))

(***************************************************************************)
(* SpecDup: _substitute_variables on variable strings that repeat a key.   *)
(***************************************************************************)
DupPieces == { <<"{", "x", "}">>, <<"{", "y", "}">>, <<"a">> }

DupItems ==
    { <<"x", "=", "a">>, <<"x", "=", "b">>, <<"y", "=", "b">>,
      <<"x", "=", "{", "y", "}">>, <<"x">> }

InitDup ==
    /\ tmpl \in { Concat(ps) : ps \in SeqsUpTo(DupPieces, MaxPieces) }
    /\ varstr \in { Join(items, <<",">>) : items \in SeqsUpTo(DupItems, MaxPairs) }
    /\ result = <<>>
    /\ pc = "call"
    /\ LibIdle
    /\ LoraIdle
    /\ FileIdle
    /\ StatusIdle

SpecDup == InitDup /\ [][NextSubst]_vars

\* the <<key, value>> of every key=value item of the variable string, in the
\* order of the items, a repeated key appearing once per occurrence
RECURSIVE SuppliedPairs(_)
SuppliedPairs(items) ==
    IF items = <<>> THEN <<>>
    ELSE LET pair == Strip(Head(items))
         IN  IF Contains(pair, "=")
             THEN << <<Strip(SplitFirst(pair, "=")[1]), Strip(SplitFirst(pair, "=")[2])>> >>
                      \o SuppliedPairs(Tail(items))
             ELSE SuppliedPairs(Tail(items))

\* the value of the last occurrence of a key
LastValue(kv, key) ==
    kv[CHOOSE i \in 1..Len(kv) :
           /\ kv[i][1] = key
           /\ \A j \in (i + 1)..Len(kv) : kv[j][1] # key][2]

\* each key once, where it first occurs, with the value of its last occurrence
RECURSIVE LastWins(_, _)
LastWins(kv, i) ==
    IF i > Len(kv) THEN <<>>
    ELSE IF \E j \in 1..(i - 1) : kv[j][1] = kv[i][1]
    THEN LastWins(kv, i + 1)
    ELSE << <<kv[i][1], LastValue(kv, kv[i][1])>> >> \o LastWins(kv, i + 1)

\* C13: when the variable string supplies a key more than once, the mapping
\* holds the value of the key's last occurrence, and that value is the one
\* _substitute_variables puts in place of {key}.
C13_LastOccurrenceWins ==
    (pc = "done" /\ Strip(varstr) # <<>>) =>
        LET kv == SuppliedPairs(Split(varstr, ","))
        IN  /\ \A i \in 1..Len(kv) :
                   /\ DictHas(ParseVariables(varstr), kv[i][1])
                   /\ DictGet(ParseVariables(varstr), kv[i][1]) = LastValue(kv, kv[i][1])
            /\ result = ReplaceAll(tmpl, LastWins(kv, 1))

\* {x} with x=a,x=b supplied: b was substituted
C13_Witness ==
    /\ pc = "done"
    /\ tmpl = <<"{", "x", "}">>
    /\ varstr = <<"x", "=", "a", ",", "x", "=", "b">>
    /\ result = <<"b">>

\* no comma-separated item is a key=value pair with a non-empty key
NoWellFormedPair(variable_string) ==
    \A i \in 1..Len(Split(variable_string, ",")) :
        LET pair == Strip(Split(variable_string, ",")[i])
        IN  \/ ~Contains(pair, "=")
            \/ Strip(SplitFirst(pair, "=")[1]) = <<>>

\* C2: an empty, whitespace-only or malformed variable string makes
\* _substitute_variables return the template unmodified.
C2_MalformedLeavesTemplate ==
    (pc = "done" /\ NoWellFormedPair(varstr)) => result = tmpl

==========================================================================
